---- MODULE Spec2Model ----
(***************************************************************************)
(* A model of the walkabout traversal engine (engine/engine.go,            *)
(* engine/types.go): the explicit-stack interpreter Engine.Execute, the    *)
(* decision protocol Action.apply, and the memory the engine reads and     *)
(* allocates.                                                              *)
(*                                                                         *)
(* Memory is a sequence of cells; an address (Ptr) is an index into it     *)
(* and 0 is nil.  A cell is [a, n]:                                        *)
(*   pointer cell    a = the referent (0 = nil),        n = 0              *)
(*   interface cell  a = the payload pointer,           n = the type tag   *)
(*   slice header    a = Data,                          n = Len            *)
(*   scalar cell     a = 0,                             n = the value      *)
(* A struct is SizeOf consecutive cells, its fields at their Offsets.      *)
(***************************************************************************)
EXTENDS Integers, Sequences, FiniteSets, TLC

\* ------------------------------------------------------------------------
\* engine/types.go: kinds
\* ------------------------------------------------------------------------
KindInterface == 1
KindPointer == 2
KindSlice == 3
KindStruct == 4

\* engine/engine.go: stack sizing
defaultStackDepth == 8
fixedSlotCount == 16
topIdx == 1

\* ------------------------------------------------------------------------
\* The registry handed to New: the type ids a generator run assigns to the
\* visitable types
\*     type Node struct { Next *Node; Kids []*Node; Any Target; Val int }
\*     type Leaf struct { Val int }
\*     type Target interface{...}   implemented by *Node and *Leaf
\*     type Narrow interface{...}   implemented by *Leaf only
\*     type Box struct { Leaf Leaf; Ref *Target; Kids []*Node; Any Target; Val int }
\* ------------------------------------------------------------------------
NodeT == 1
LeafT == 2
NodePtrT == 3
NodePtrSliceT == 4
TargetT == 5
NarrowT == 6
BoxT == 7
TargetPtrT == 8
NilTD == -1

ZeroTypeData ==
  [Kind |-> 0, TypeID |-> 0, Elem |-> 0, Fields |-> <<>>, SizeOf |-> 0,
   Name |-> "", Impl |-> {}]

typeMap ==
  [id \in 0..8 |->
    CASE id = NodeT ->
           [Kind |-> KindStruct, TypeID |-> NodeT, Elem |-> 0,
            Fields |-> << [Name |-> "Next", Offset |-> 0, Target |-> NodePtrT],
                          [Name |-> "Kids", Offset |-> 1, Target |-> NodePtrSliceT],
                          [Name |-> "Any", Offset |-> 2, Target |-> TargetT] >>,
            SizeOf |-> 4, Name |-> "Node", Impl |-> {}]
      [] id = LeafT ->
           [Kind |-> KindStruct, TypeID |-> LeafT, Elem |-> 0, Fields |-> <<>>,
            SizeOf |-> 1, Name |-> "Leaf", Impl |-> {}]
      [] id = NodePtrT ->
           [Kind |-> KindPointer, TypeID |-> NodePtrT, Elem |-> NodeT,
            Fields |-> <<>>, SizeOf |-> 1, Name |-> "", Impl |-> {}]
      [] id = NodePtrSliceT ->
           [Kind |-> KindSlice, TypeID |-> NodePtrSliceT, Elem |-> NodePtrT,
            Fields |-> <<>>, SizeOf |-> 1, Name |-> "", Impl |-> {}]
      [] id = TargetT ->
           [Kind |-> KindInterface, TypeID |-> TargetT, Elem |-> 0,
            Fields |-> <<>>, SizeOf |-> 1, Name |-> "Target",
            Impl |-> {NodeT, LeafT}]
      [] id = NarrowT ->
           [Kind |-> KindInterface, TypeID |-> NarrowT, Elem |-> 0,
            Fields |-> <<>>, SizeOf |-> 1, Name |-> "Narrow", Impl |-> {LeafT}]
      [] id = BoxT ->
           [Kind |-> KindStruct, TypeID |-> BoxT, Elem |-> 0,
            Fields |-> << [Name |-> "Leaf", Offset |-> 0, Target |-> LeafT],
                          [Name |-> "Ref", Offset |-> 1, Target |-> TargetPtrT],
                          [Name |-> "Kids", Offset |-> 2, Target |-> NodePtrSliceT],
                          [Name |-> "Any", Offset |-> 3, Target |-> TargetT] >>,
            SizeOf |-> 5, Name |-> "Box", Impl |-> {}]
      [] id = TargetPtrT ->
           [Kind |-> KindPointer, TypeID |-> TargetPtrT, Elem |-> TargetT,
            Fields |-> <<>>, SizeOf |-> 1, Name |-> "", Impl |-> {}]
      [] OTHER -> ZeroTypeData]

\* Engine.typeData: &e.typeMap[id]; a *TypeData is modelled by its index.
typeData(id) == typeMap[id]

\* the offset of the scalar Val in a struct of the given type
ValOffset(t) == typeMap[t].SizeOf - 1

\* Engine.Stringify
RECURSIVE Stringify(_)
Stringify(id) ==
  IF id = 0 THEN "<NIL>"
  ELSE LET td == typeData(id) IN
       CASE td.Kind \in {KindInterface, KindStruct} -> td.Name
         [] td.Kind = KindPointer -> "*" \o Stringify(td.Elem)
         [] td.Kind = KindSlice -> "[]" \o Stringify(td.Elem)
         [] OTHER -> "unsupported"

\* ------------------------------------------------------------------------
\* Memory
\* ------------------------------------------------------------------------
Cell(a, n) == [a |-> a, n |-> n]
ZeroCell == Cell(0, 0)
P(to) == Cell(to, 0)
S(data, len) == Cell(data, len)
I(tag, pay) == Cell(pay, tag)
V(val) == Cell(0, val)
NodeCells(next, kdata, klen, tag, pay, val) ==
  << P(next), S(kdata, klen), I(tag, pay), V(val) >>

Zeros(n) == [i \in 1..n |-> ZeroCell]

\* TypeData.Copy: *(*T)(dest) = *(*T)(from), SizeOf(T) cells
Copy(m, t, dest, from) ==
  [i \in 1..Len(m) |->
     IF i >= dest /\ i < dest + typeMap[t].SizeOf THEN m[from + (i - dest)] ELSE m[i]]

\* TypeData.IntfType: the type id of the payload, 0 for a nil interface or a
\* dynamic type the generated switch does not list
IntfType(m, t, x) == IF m[x].n \in typeMap[t].Impl THEN m[x].n ELSE 0

\* TypeData.IntfWrap accepts exactly the listed implementors; it returns nil
\* otherwise
IntfWrapAccepts(t, id) == id \in typeMap[t].Impl

\* TypeData.IntfWrap: a freshly allocated interface cell holding (id, x), or
\* nil when the type is not one of the interface's implementors
IntfWrap(m, t, id, x) ==
  IF IntfWrapAccepts(t, id)
    THEN [m |-> Append(m, I(id, x)), p |-> Len(m) + 1]
    ELSE [m |-> m, p |-> 0]

\* TypeData.NewStruct: a zeroed struct
NewStruct(m, t) == [m |-> m \o Zeros(typeMap[t].SizeOf), p |-> Len(m) + 1]

\* TypeData.NewSlice: x := make(S, size); return &x.  The header is followed
\* by its backing array.
NewSlice(m, size) ==
  [m |-> Append(m, S(Len(m) + 2, size)) \o Zeros(size), p |-> Len(m) + 1]

\* next := ...; Ptr(&next): a fresh pointer cell
NewPtrCell(m, to) == [m |-> Append(m, P(to)), p |-> Len(m) + 1]

\* ------------------------------------------------------------------------
\* engine/types.go: Action, Decision, Context
\* ------------------------------------------------------------------------
NoFn == "nil"
NoErr == "nil"

Action(call, td, value, valueType) ==
  [call |-> call, dirty |-> FALSE, post |-> NoFn, replaced |-> FALSE,
   typeData |-> td, value |-> value, valueType |-> valueType]

ZeroAction == Action(NoFn, NilTD, 0, 0)

\* Context.ActionCall
ActionCall(fn) == Action(fn, NilTD, 0, 0)
\* Context.ActionVisit
ActionVisit(td, value) == Action(NoFn, td, value, typeMap[td].TypeID)
\* Context.ActionVisitTypeID
ActionVisitTypeID(id, value) == Action(NoFn, NilTD, value, id)

\* Context.Continue: the zero Decision
Continue ==
  [hasActions |-> FALSE, actions |-> <<>>, error |-> NoErr, halt |-> FALSE,
   intercept |-> NoFn, post |-> NoFn, replacement |-> 0, replacementType |-> 0,
   skip |-> FALSE]
\* Context.Actions, Error, Halt, Skip
Actions(actions) == [Continue EXCEPT !.hasActions = TRUE, !.actions = actions]
Error(err) == [Continue EXCEPT !.error = err]
Halt == [Continue EXCEPT !.halt = TRUE]
Skip == [Continue EXCEPT !.skip = TRUE]
\* Decision.Intercept, Post, Replace
Intercept(d, fn) == [d EXCEPT !.intercept = fn]
Post(d, fn) == [d EXCEPT !.post = fn]
Replace(d, id, x) == [d EXCEPT !.replacement = x, !.replacementType = id]

ErrCannotReplace == "this value cannot be replaced"
ErrNotAssignable(repl, to) ==
  "type " \o Stringify(repl) \o " is unknown or not assignable to " \o Stringify(to)
ErrCannotChange(to, repl) ==
  "cannot change type of " \o Stringify(to) \o " to " \o Stringify(repl)

\* A bug: the type check is dropped, any replacement is taken
applyNoTypeCheck(m, a, d, assignableTo) ==
  IF d.error # NoErr THEN [err |-> d.error, a |-> a, m |-> m]
  ELSE LET a1 == IF d.post # NoFn THEN [a EXCEPT !.post = d.post] ELSE a IN
       IF d.replacement = 0 THEN [err |-> NoErr, a |-> a1, m |-> m]
       ELSE [err |-> NoErr, m |-> m,
             a |-> [a1 EXCEPT !.typeData = d.replacementType, !.dirty = TRUE,
                              !.replaced = TRUE, !.value = d.replacement]]

\* A bug: the slot is marked dirty by every decision that is not an error
applyAlwaysDirty(m, a, d, assignableTo) ==
  LET r == applyNoTypeCheck(m, a, d, assignableTo) IN
  IF r.err = NoErr THEN [r EXCEPT !.a.dirty = TRUE] ELSE r

\* Action.apply.  Execute hands the descriptor the slot must stay assignable
\* to (the parent slot's typeData) to every call; it is the assignableTo the
\* body tests.  The result is the error, the updated action and the memory
\* (IntfWrap allocates the interface value it returns).
apply(m, a, d, assignableTo) ==
  IF d.error # NoErr THEN [err |-> d.error, a |-> a, m |-> m]
  ELSE
    LET a1 == IF d.post # NoFn THEN [a EXCEPT !.post = d.post] ELSE a
        taken == [a1 EXCEPT !.dirty = TRUE, !.replaced = TRUE,
                            !.value = d.replacement]
    IN
    IF d.replacement = 0 THEN [err |-> NoErr, a |-> a1, m |-> m]
    ELSE IF assignableTo = NilTD
      THEN [err |-> ErrCannotReplace, a |-> a1, m |-> m]
    ELSE IF typeMap[a1.typeData].TypeID # d.replacementType
      THEN IF typeMap[assignableTo].Kind = KindInterface
             THEN LET w == IntfWrap(m, assignableTo, d.replacementType, d.replacement) IN
                  IF w.p = 0
                    THEN [err |-> ErrNotAssignable(d.replacementType,
                                                   typeMap[assignableTo].TypeID),
                          a |-> a1, m |-> w.m]
                    ELSE [err |-> NoErr, m |-> w.m,
                          a |-> [taken EXCEPT !.typeData = d.replacementType]]
             ELSE [err |-> ErrCannotChange(typeMap[assignableTo].TypeID,
                                           d.replacementType),
                   a |-> a1, m |-> m]
    ELSE [err |-> NoErr, a |-> taken, m |-> m]

\* ------------------------------------------------------------------------
\* engine/engine.go: frames.  A *frame is <<g, i>>: frame i of the g-th
\* frame array Execute allocated; a *Action is <<g, i, s>>.
\* ------------------------------------------------------------------------
ZeroFrame ==
  [Count |-> 0, Idx |-> 0, Intercept |-> NoFn, Slots |-> <<>>, Overflow |-> <<>>]

NilFrame == <<0, 0>>

FrameAt(A, fp) == A[fp[1]][fp[2] + 1]

\* frame.Slot.  Slots is the fixed array [fixedSlotCount]Action, kept up to
\* the highest slot written so far: the slots above are still zero.
Slot(f, idx) ==
  IF idx < fixedSlotCount
    THEN IF idx < Len(f.Slots) THEN f.Slots[idx + 1] ELSE ZeroAction
    ELSE f.Overflow[idx - fixedSlotCount + 1]

SlotAt(A, sp) == Slot(FrameAt(A, <<sp[1], sp[2]>>), sp[3])

\* frame.Active, as a pointer
Active(A, fp) == <<fp[1], fp[2], FrameAt(A, fp).Idx>>
\* frame.Zero, as a pointer
Zero(fp) == <<fp[1], fp[2], 0>>

\* *slot = action
StoreSlot(f, idx, action) ==
  IF idx < fixedSlotCount
    THEN [f EXCEPT !.Slots =
            [i \in 1..(IF idx + 1 > Len(f.Slots) THEN idx + 1 ELSE Len(f.Slots)) |->
               IF i = idx + 1 THEN action
               ELSE IF i <= Len(f.Slots) THEN f.Slots[i] ELSE ZeroAction]]
    ELSE [f EXCEPT !.Overflow[idx - fixedSlotCount + 1] = action]

\* frame.SetSlot
SetSlot(f, idx, action) ==
  StoreSlot(f, idx,
            IF action.typeData = NilTD
              THEN [action EXCEPT !.typeData = action.valueType]
              ELSE action)

PutFrame(A, fp, f) == [A EXCEPT ![fp[1]][fp[2] + 1] = f]
PutSlot(A, sp, action) ==
  PutFrame(A, <<sp[1], sp[2]>>, StoreSlot(FrameAt(A, <<sp[1], sp[2]>>), sp[3], action))

\* enter(): configure the entering frame
enterFrame(f, intercept, slotCount) ==
  [f EXCEPT !.Count = slotCount, !.Intercept = intercept, !.Idx = 0,
            !.Overflow = IF slotCount > fixedSlotCount
                           THEN [i \in 1..(slotCount - fixedSlotCount) |-> ZeroAction]
                           ELSE @]

\* SetSlot for each of a list of actions, from slot 0: the slots written hold
\* the actions, the others keep what they held
SetSlots(f, actions, first) ==
  LET n == Len(actions)
      set(k) == IF actions[k].typeData = NilTD
                  THEN [actions[k] EXCEPT !.typeData = actions[k].valueType]
                  ELSE actions[k]
      fixed == IF n < fixedSlotCount THEN n ELSE fixedSlotCount
      kept == IF fixed > Len(f.Slots) THEN fixed ELSE Len(f.Slots)
  IN [f EXCEPT !.Slots = [k \in 1..kept |-> IF k >= first /\ k <= n THEN set(k) ELSE f.Slots[k]],
               !.Overflow = [k \in 1..Len(f.Overflow) |->
                               IF k + fixedSlotCount <= n THEN set(k + fixedSlotCount)
                               ELSE f.Overflow[k]]]

\* ------------------------------------------------------------------------
\* The inputs of one Execute call: the root graph, the root's type, the type
\* the result must stay assignable to, and how many non-default choices the
\* callbacks of this call may make.
\* ------------------------------------------------------------------------
MaxSpecial == 2

\* a tree with every kind of child: a pointer, a slice with a nil element,
\* an interface holding a Leaf, a typed-nil interface
SmallTree ==
  [mem |-> NodeCells(5, 9, 2, LeafT, 11, 1)          \* 1..4   R
           \o NodeCells(0, 0, 0, 0, 0, 2)            \* 5..8   A = R.Next
           \o << P(12), P(0) >>                      \* 9..10  R.Kids
           \o << V(3) >>                             \* 11     L = R.Any
           \o NodeCells(0, 0, 0, NodeT, 0, 4),       \* 12..15 B = R.Kids[0]
   root |-> 1, rootType |-> NodeT, assignableTo |-> TargetT,
   budget |-> MaxSpecial]

\* a Leaf root that must stay assignable to Narrow
LeafRoot ==
  [mem |-> << V(7) >>, root |-> 1, rootType |-> LeafT, assignableTo |-> NarrowT,
   budget |-> MaxSpecial]

\* a Leaf root that must stay a Leaf
LeafOnly ==
  [mem |-> << V(7) >>, root |-> 1, rootType |-> LeafT, assignableTo |-> LeafT,
   budget |-> MaxSpecial]

\* the root is reachable from itself: A.Next = R, A.Kids[0] = A, A.Any = R
Cyclic ==
  [mem |-> NodeCells(5, 0, 0, 0, 0, 1)               \* 1..4   R
           \o NodeCells(1, 9, 1, NodeT, 1, 2)        \* 5..8   A = R.Next
           \o << P(5) >>,                            \* 9      A.Kids
   root |-> 1, rootType |-> NodeT, assignableTo |-> NodeT,
   budget |-> MaxSpecial]

\* a chain R -> N1 -> N2 with N2.Any = X and X.Any = a Leaf: X is entered
\* as frame 7, which is where the frame array of defaultStackDepth frames is
\* grown
DeepChain ==
  [mem |-> NodeCells(5, 0, 0, 0, 0, 1)               \* 1..4   R
           \o NodeCells(9, 0, 0, 0, 0, 2)            \* 5..8   N1 = R.Next
           \o NodeCells(0, 0, 0, NodeT, 13, 3)       \* 9..12  N2 = N1.Next
           \o NodeCells(0, 0, 0, LeafT, 17, 4)       \* 13..16 X = N2.Any
           \o << V(5) >>,                            \* 17     X.Any
   root |-> 1, rootType |-> NodeT, assignableTo |-> NodeT, budget |-> MaxSpecial]

\* R.Kids[0] = K1, K1.Next = N2, N2.Kids[0] = X: the fields of N2 are
\* entered as frame 7
DeepTree ==
  [mem |-> NodeCells(0, 5, 1, 0, 0, 1)               \* 1..4   R
           \o << P(6) >>                             \* 5      R.Kids
           \o NodeCells(10, 0, 0, 0, 0, 2)           \* 6..9   K1
           \o NodeCells(0, 14, 1, 0, 0, 3)           \* 10..13 N2 = K1.Next
           \o << P(15) >>                            \* 14     N2.Kids
           \o NodeCells(0, 0, 0, 0, 0, 4),           \* 15..18 X
   root |-> 1, rootType |-> NodeT, assignableTo |-> NodeT, budget |-> MaxSpecial - 1]

\* DeepTree with a way back to the root: X.Next = R
DeepCyclic ==
  [mem |-> NodeCells(0, 5, 1, 0, 0, 1)               \* 1..4   R
           \o << P(6) >>                             \* 5      R.Kids
           \o NodeCells(10, 0, 0, 0, 0, 2)           \* 6..9   K1
           \o NodeCells(0, 14, 1, 0, 0, 3)           \* 10..13 N2 = K1.Next
           \o << P(15) >>                            \* 14     N2.Kids
           \o NodeCells(1, 0, 0, 0, 0, 4),           \* 15..18 X
   root |-> 1, rootType |-> NodeT, assignableTo |-> NodeT, budget |-> MaxSpecial - 2]

\* R.Kids has one element more than a frame has fixed slots; the last
\* element, the one kept in the Overflow array, is Z
Wide ==
  [mem |-> NodeCells(0, 5, fixedSlotCount + 1, 0, 0, 1)                 \* 1..4   R
           \o [i \in 1..(fixedSlotCount + 1) |->
                 IF i = fixedSlotCount + 1 THEN P(fixedSlotCount + 6) ELSE P(0)]
                                                                       \* 5..21  R.Kids
           \o NodeCells(0, 0, 0, 0, 0, 2),                             \* 22..25 Z
   root |-> 1, rootType |-> NodeT, assignableTo |-> NodeT, budget |-> MaxSpecial - 1]

Scenarios ==
  << SmallTree, LeafRoot, LeafOnly, Cyclic, DeepChain, DeepTree, DeepCyclic, Wide >>

\* the inputs whose graph is a tree: no cycle, no value reachable twice
Trees == {1, 2, 3, 5, 6, 8}
\* the inputs whose root is reachable from itself
Cycles == {4, 7}

\* ------------------------------------------------------------------------
\* The callbacks.  A callback is a FacadeFn, named by a string; what it
\* returns is any Decision the generated API can build, at a cost of one
\* for each of: a base other than Continue, a Replace, a Post, an Intercept.
\* ------------------------------------------------------------------------
ErrVisitor == "an error"
ErrCall == "call error"

\* the function a callback registers with Decision.Post / Decision.Intercept
PostOf(fn) ==
  CASE fn = "main" -> "postA"
    [] fn \in {"icptA", "icptB"} -> "postI"
    [] OTHER -> "postB"
InterceptOf(fn) == IF fn = "icptA" THEN "icptB" ELSE "icptA"

\* the struct values a callback can name from the node it is shown: the
\* referent of Next and the payload of Any
NamedChildren(m, t, v) ==
  IF t # NodeT THEN <<>>
  ELSE (IF m[v].a # 0 THEN << <<NodeT, m[v].a>> >> ELSE <<>>)
       \o (IF m[v + 2].n \in {NodeT, LeafT} /\ m[v + 2].a # 0
             THEN << <<m[v + 2].n, m[v + 2].a>> >> ELSE <<>>)

\* the action lists a callback passes to Context.Actions
ActionLists(m, t, v) ==
  LET kids == NamedChildren(m, t, v) IN
  { <<>>, << ActionCall("callOk") >>, << ActionCall("callErr") >> }
  \cup (IF Len(kids) = 0 THEN {}
        ELSE { << ActionVisitTypeID(kids[1][1], kids[1][2]), ActionCall("callOk") >>
               \o [i \in 1..(Len(kids) - 1) |->
                     ActionVisitTypeID(kids[i + 1][1], kids[i + 1][2])] })

Bases(m, t, v) ==
  { [d |-> Continue, cost |-> 0], [d |-> Skip, cost |-> 1], [d |-> Halt, cost |-> 1],
    [d |-> Error(ErrVisitor), cost |-> 1] }
  \cup { [d |-> Actions(l), cost |-> 1] : l \in ActionLists(m, t, v) }

\* what a callback allocates for a Replace: a copy of the visited value with
\* another Val, or a fresh value of the other struct type
Replacements(m, t, v) ==
  { [cells |-> <<>>, type |-> 0, cost |-> 0],
    [cells |-> [i \in 1..typeMap[t].SizeOf |->
                  IF i - 1 = ValOffset(t) THEN V(m[v + i - 1].n + 100)
                  ELSE m[v + i - 1]],
     type |-> t, cost |-> 1],
    [cells |-> IF t = NodeT THEN << V(50) >> ELSE NodeCells(0, 0, 0, 0, 0, 60),
     type |-> IF t = NodeT THEN LeafT ELSE NodeT, cost |-> 1] }

\* the decisions callback fn can return when shown the value v of type t
Decisions(fn, m, t, v, b) ==
  { [d |-> LET d0 == IF r.type = 0 THEN x.d ELSE Replace(x.d, r.type, Len(m) + 1)
               d1 == IF po THEN Post(d0, PostOf(fn)) ELSE d0
           IN IF ic THEN Intercept(d1, InterceptOf(fn)) ELSE d1,
     cells |-> r.cells,
     cost |-> x.cost + r.cost + (IF po THEN 1 ELSE 0) + (IF ic THEN 1 ELSE 0)] :
      <<x, r, po, ic>> \in
        { q \in Bases(m, t, v) \X Replacements(m, t, v) \X BOOLEAN \X BOOLEAN :
            q[1].cost + q[2].cost + (IF q[3] THEN 1 ELSE 0) + (IF q[4] THEN 1 ELSE 0) <= b } }

\* ------------------------------------------------------------------------
\* The state of one Execute call
\* ------------------------------------------------------------------------
VARIABLES
  sc,          \* which inputs this call was given (an index into Scenarios)
  pc,          \* "start", the labels "enter" / "unwind" / "nextSlot", "done", "panic"
  mem,         \* the heap
  arrs,        \* every frame array allocated so far; stack is the last one
  stackIdx,
  curFrame,    \* *frame
  curSlot,     \* *Action
  parentSlot,  \* *Action
  returning,   \* *frame, NilFrame before the first pop
  halting,
  result,      \* what Execute returned
  budget,      \* the non-default choices the callbacks may still make
  log,         \* the callbacks invoked so far, in order
  acc,         \* the abstract accessor in hand and what it last answered
  reg,         \* the TypeMap handed to New and what New made of it
  peers,       \* the Execute calls that are not running: their local state
  built        \* an Action built by itself, the decision applied to it, the outcome

vars == << sc, pc, mem, arrs, stackIdx, curFrame, curSlot, parentSlot,
           returning, halting, result, budget, log, acc, reg, peers, built >>

\* what a step of Execute has no access to: the accessors, the TypeMap New
\* was given, the local variables of the other calls, the Actions built
\* outside a frame
aside == << acc, reg, peers, built >>

NoAccessor == [a |-> <<0, 0>>, asked |-> "nothing"]
NoRegistry == [given |-> <<>>, made |-> "nothing"]
NoPeers == [phase |-> "single", running |-> 1, saved |-> <<>>, rec |-> <<>>]
NoBuilt == [by |-> "nothing"]

NoResult == [retType |-> 0, ret |-> 0, changed |-> FALSE, err |-> NoErr]

\* the frame array in use: Execute's variable stack
stack == Len(arrs)
StackLen == Len(arrs[stack])

Init ==
  /\ sc \in 1..Len(Scenarios)
  /\ pc = "start"
  /\ mem = Scenarios[sc].mem
  /\ arrs = <<>>
  /\ stackIdx = 0
  /\ curFrame = NilFrame
  /\ curSlot = <<0, 0, 0>>
  /\ parentSlot = <<0, 0, 0>>
  /\ returning = NilFrame
  /\ halting = FALSE
  /\ result = NoResult
  /\ budget = Scenarios[sc].budget
  /\ log = <<>>
  /\ acc = NoAccessor
  /\ reg = NoRegistry
  /\ peers = NoPeers
  /\ built = NoBuilt

\* Execute, up to the label enter: the frame array, the sentinel frame that
\* carries assignableTo, and the one-slot frame of the root
Bootstrap ==
  /\ pc = "start"
  /\ UNCHANGED aside
  /\ LET in == Scenarios[sc]
         f0 == SetSlot(ZeroFrame, 0, ActionVisit(in.assignableTo, 0))
         f1 == SetSlot([ZeroFrame EXCEPT !.Count = 1], 0,
                       ActionVisit(in.rootType, in.root))
     IN arrs' = << [i \in 1..defaultStackDepth |->
                      IF i = 1 THEN f0 ELSE IF i = topIdx + 1 THEN f1 ELSE ZeroFrame] >>
  /\ parentSlot' = Zero(<<1, 0>>)
  /\ stackIdx' = topIdx
  /\ curFrame' = <<1, topIdx>>
  /\ curSlot' = Zero(<<1, topIdx>>)
  /\ halting' = FALSE
  /\ pc' = "enter"
  /\ UNCHANGED << sc, mem, returning, result, budget, log >>

\* a bug: the error is returned together with the root slot as it stands
ReturnErrWithRoot(err, m, A, b, l) ==
  /\ pc' = "done"
  /\ result' = LET z == SlotAt(A, Zero(<<Len(A), topIdx>>)) IN
                [retType |-> typeMap[z.typeData].TypeID, ret |-> z.value,
                 changed |-> z.dirty, err |-> err]
  /\ mem' = m
  /\ arrs' = A
  /\ budget' = b
  /\ log' = l
  /\ UNCHANGED << sc, stackIdx, curFrame, curSlot, parentSlot, returning, halting >>

\* return 0, nil, false, err
ReturnErr(err, m, A, b, l) ==
  /\ pc' = "done"
  /\ result' = [retType |-> 0, ret |-> 0, changed |-> FALSE, err |-> err]
  /\ mem' = m
  /\ arrs' = A
  /\ budget' = b
  /\ log' = l
  /\ UNCHANGED << sc, stackIdx, curFrame, curSlot, parentSlot, returning, halting >>

\* a nil dereference or an explicit panic(): Execute does not return
Panic(m, A, b, l) ==
  /\ pc' = "panic"
  /\ mem' = m
  /\ arrs' = A
  /\ budget' = b
  /\ log' = l
  /\ UNCHANGED << sc, stackIdx, curFrame, curSlot, parentSlot, returning, halting,
                  result >>

\* a bug: the search starts above the top-level frame
OnStackAboveTop(A, cs) ==
  \E l \in (topIdx + 1)..(stackIdx - 1) :
    LET onStack == SlotAt(A, Active(A, <<Len(A), l>>)) IN
    /\ onStack.value = cs.value
    /\ onStack.typeData = cs.typeData

\* Linear search for cycle-breaking: some frame below the current one has an
\* active slot with the same value and the same type id
OnStack(A, cs) ==
  \E l \in 0..(stackIdx - 1) :
    LET onStack == SlotAt(A, Active(A, <<Len(A), l>>)) IN
    /\ onStack.value = cs.value
    /\ onStack.typeData = cs.typeData

\* label enter, if curSlot.call != nil
EnterCall ==
  /\ pc = "enter"
  /\ UNCHANGED aside
  /\ LET cs == SlotAt(arrs, curSlot) IN
     /\ cs.call # NoFn
     /\ LET l == Append(log, [fn |-> cs.call, t |-> 0, v |-> 0, depth |-> stackIdx,
                              d |-> Continue, to |-> 0]) IN
        IF cs.call = "callErr"
          THEN ReturnErr(ErrCall, mem, arrs, budget, l)
          ELSE /\ pc' = "unwind"
               /\ log' = l
               /\ UNCHANGED << sc, mem, arrs, stackIdx, curFrame, curSlot, parentSlot,
                               returning, halting, result, budget >>

\* a bug: the wrong label, the slot is entered again
CycleGotoEnter == "enter"

\* where the cycle check goes when it matches: goto nextSlot
CycleGoto == "nextSlot"

\* label enter, when the cycle check matches
EnterCycle ==
  /\ pc = "enter"
  /\ UNCHANGED aside
  /\ LET cs == SlotAt(arrs, curSlot) IN
     /\ cs.call = NoFn
     /\ OnStack(arrs, cs)
  /\ pc' = CycleGoto
  /\ UNCHANGED << sc, mem, arrs, stackIdx, curFrame, curSlot, parentSlot, returning,
                  halting, result, budget, log >>

\* a bug: a larger frame array is made on every push
GrowOnEveryPush(A, idx) ==
  Append(A, [i \in 1..((3 * Len(A[Len(A)])) \div 2 + 1) |->
               IF i <= Len(A[Len(A)]) THEN A[Len(A)][i] ELSE ZeroFrame])

\* a bug: the array is grown one push too late, without the extra -1
GrowLate(A, idx) ==
  IF idx = Len(A[Len(A)])
    THEN Append(A, [i \in 1..((3 * Len(A[Len(A)])) \div 2 + 1) |->
                      IF i <= Len(A[Len(A)]) THEN A[Len(A)][i] ELSE ZeroFrame])
    ELSE A

\* if stackIdx == len(stack)-1 { temp := make([]frame, 3*len(stack)/2+1);
\* copy(temp, stack); stack = temp }: the old array stays where it was
Grow(A, idx) ==
  IF idx = Len(A[Len(A)]) - 1
    THEN Append(A, [i \in 1..((3 * Len(A[Len(A)])) \div 2 + 1) |->
                      IF i <= Len(A[Len(A)]) THEN A[Len(A)][i] ELSE ZeroFrame])
    ELSE A

\* the end of label enter: the frame configured at entering = &stack[stackIdx+1]
\* becomes the current frame
Push(m, A, f, h, b, l) ==
  LET entering == <<Len(A), stackIdx + 1>> IN
  /\ arrs' = Grow(PutFrame(A, entering, f), stackIdx + 1)
  /\ stackIdx' = stackIdx + 1
  /\ parentSlot' = curSlot
  /\ curFrame' = entering
  /\ curSlot' = Zero(entering)
  /\ pc' = "enter"
  /\ mem' = m
  /\ halting' = h
  /\ budget' = b
  /\ log' = l
  /\ UNCHANGED << sc, returning, result >>

\* goto unwind
ToUnwind(m, A, h, b, l) ==
  /\ pc' = "unwind"
  /\ mem' = m
  /\ arrs' = A
  /\ halting' = h
  /\ budget' = b
  /\ log' = l
  /\ UNCHANGED << sc, stackIdx, curFrame, curSlot, parentSlot, returning, result >>

\* the frame at &stack[stackIdx+1], before enter() configures it
Entering(A) == FrameAt(A, <<Len(A), stackIdx + 1>>)

\* case KindPointer
EnterPointer ==
  /\ pc = "enter"
  /\ UNCHANGED aside
  /\ LET cs == SlotAt(arrs, curSlot) IN
     /\ cs.call = NoFn
     /\ ~OnStack(arrs, cs)
     /\ typeMap[cs.typeData].Kind = KindPointer
     /\ LET ptr == mem[cs.value].a IN
        IF ptr = 0
          THEN ToUnwind(mem, arrs, halting, budget, log)
          ELSE Push(mem, arrs,
                    SetSlot(enterFrame(Entering(arrs), FrameAt(arrs, curFrame).Intercept, 1),
                            0, ActionVisit(typeMap[cs.typeData].Elem, ptr)),
                    halting, budget, log)

\* case KindSlice
EnterSlice ==
  /\ pc = "enter"
  /\ UNCHANGED aside
  /\ LET cs == SlotAt(arrs, curSlot) IN
     /\ cs.call = NoFn
     /\ ~OnStack(arrs, cs)
     /\ typeMap[cs.typeData].Kind = KindSlice
     /\ LET header == mem[cs.value]
            eltTd == typeMap[cs.typeData].Elem
        IN
        IF header.n = 0
          THEN ToUnwind(mem, arrs, halting, budget, log)
          ELSE Push(mem, arrs,
                    SetSlots(enterFrame(Entering(arrs), FrameAt(arrs, curFrame).Intercept,
                                        header.n),
                             [i \in 1..header.n |->
                                ActionVisit(eltTd, header.a + (i - 1) * typeMap[eltTd].SizeOf)],
                             1),
                    halting, budget, log)

\* case KindInterface
EnterInterface ==
  /\ pc = "enter"
  /\ UNCHANGED aside
  /\ LET cs == SlotAt(arrs, curSlot) IN
     /\ cs.call = NoFn
     /\ ~OnStack(arrs, cs)
     /\ typeMap[cs.typeData].Kind = KindInterface
     /\ LET ptr == mem[cs.value].a
            elem == IntfType(mem, cs.typeData, cs.value)
        IN
        IF elem = 0 \/ ptr = 0
          THEN ToUnwind(mem, arrs, halting, budget, log)
          ELSE Push(mem, arrs,
                    SetSlot(enterFrame(Entering(arrs), FrameAt(arrs, curFrame).Intercept, 1),
                            0, ActionVisit(elem, ptr)),
                    halting, budget, log)

\* d := curSlot.typeData.Facade(ctx, fn, curSlot.value) followed by
\* curSlot.apply(e, d, parentSlot.typeData) and if d.halt { halting = true }.
\* L is Execute's state so far, x the decision the callback returns (with
\* what the callback allocated to build it).
Invoke(L, fn, x) ==
  LET cs == SlotAt(L.A, curSlot)
      ap == apply(L.m \o x.cells, cs, x.d, SlotAt(L.A, parentSlot).typeData)
  IN [m |-> ap.m,
      A |-> PutSlot(L.A, curSlot, ap.a),
      halting |-> L.halting \/ (ap.err = NoErr /\ x.d.halt),
      budget |-> L.budget - x.cost,
      log |-> Append(L.log, [fn |-> fn, t |-> cs.typeData, v |-> cs.value,
                             depth |-> stackIdx, d |-> x.d,
                             to |-> SlotAt(L.A, parentSlot).typeData]),
      err |-> ap.err]

\* the decisions a callback may return for the current slot in state L
Choices(L, fn) ==
  LET cs == SlotAt(L.A, curSlot) IN Decisions(fn, L.m, cs.typeData, cs.value, L.budget)

Here == [m |-> mem, A |-> arrs, halting |-> halting, budget |-> budget, log |-> log,
         err |-> NoErr]

\* if d.intercept != nil { curFrame.Intercept = d.intercept }
ReplaceIntercept(L, d) ==
  IF d.intercept # NoFn /\ L.err = NoErr
    THEN [L EXCEPT !.A = PutFrame(L.A, curFrame,
                                  [FrameAt(L.A, curFrame) EXCEPT !.Intercept = d.intercept])]
    ELSE L

\* case KindStruct, after the interceptor (if any) returned d1 and the
\* visitor returned d
EnterFields(L, d) ==
  LET cs == SlotAt(L.A, curSlot)
      fields == typeMap[cs.typeData].Fields
      fieldCount == Len(fields)
  IN
  IF L.halting \/ d.skip THEN ToUnwind(L.m, L.A, L.halting, L.budget, L.log)
  ELSE IF d.hasActions
    THEN IF Len(d.actions) = 0
           THEN ToUnwind(L.m, L.A, L.halting, L.budget, L.log)
           ELSE Push(L.m, L.A,
                     SetSlots(enterFrame(Entering(L.A), d.intercept, Len(d.actions)),
                              d.actions, 1),
                     L.halting, L.budget, L.log)
  ELSE IF fieldCount = 0
    THEN ToUnwind(L.m, L.A, L.halting, L.budget, L.log)
    ELSE Push(L.m, L.A,
              SetSlots(enterFrame(Entering(L.A), d.intercept, fieldCount),
                       [i \in 1..fieldCount |->
                          ActionVisit(fields[i].Target, cs.value + fields[i].Offset)],
                       1),
              L.halting, L.budget, L.log)

\* the visitor is called, then the frame of the fields or of the actions is
\* entered
VisitStruct(L) ==
  \E x \in Choices(L, "main") :
    \E L2 \in {Invoke(L, "main", x)} :
    IF L2.err # NoErr
      THEN ReturnErr(L2.err, L2.m, L2.A, L2.budget, L2.log)
      ELSE EnterFields(L2, x.d)

\* case KindStruct
EnterStruct ==
  /\ pc = "enter"
  /\ UNCHANGED aside
  /\ LET cs == SlotAt(arrs, curSlot) IN
     /\ cs.call = NoFn
     /\ ~OnStack(arrs, cs)
     /\ typeMap[cs.typeData].Kind = KindStruct
     /\ LET icpt == FrameAt(arrs, curFrame).Intercept IN
        IF icpt # NoFn
          THEN \E x1 \in Choices(Here, icpt) :
                 \E L1 \in {ReplaceIntercept(Invoke(Here, icpt, x1), x1.d)} :
                 IF L1.err # NoErr
                   THEN ReturnErr(L1.err, L1.m, L1.A, L1.budget, L1.log)
                   ELSE VisitStruct(L1)
          ELSE VisitStruct(Here)

\* for i, f := range Fields { f.targetData.Copy(next+f.Offset, returning.Slot(i).value) }
RECURSIVE CopyFields(_, _, _, _, _)
CopyFields(m, fields, next, ret, i) ==
  IF i > Len(fields) THEN m
  ELSE CopyFields(Copy(m, fields[i].Target, next + fields[i].Offset, Slot(ret, i - 1).value),
                  fields, next, ret, i + 1)

\* for i := 0; i < returning.Count; i++ { elemTd.Copy(toElem, returning.Slot(i).value) }
RECURSIVE CopyElems(_, _, _, _, _)
CopyElems(m, elemTd, data, ret, i) ==
  IF i >= ret.Count THEN m
  ELSE CopyElems(Copy(m, elemTd, data + i * typeMap[elemTd].SizeOf, Slot(ret, i).value),
                 elemTd, data, ret, i + 1)

\* a bug: the fields are written into the struct the slot holds, no copy of
\* it is allocated
FoldInPlace(m, cs, A, retp) ==
  LET t == cs.typeData
      kind == typeMap[t].Kind
      ret == FrameAt(A, retp)
      crash == [panic |-> TRUE, m |-> m, value |-> 0]
  IN
  CASE kind = KindStruct ->
         IF \/ cs.value = 0
            \/ /\ Len(typeMap[t].Fields) > 0
               /\ \/ retp = NilFrame
                  \/ \E i \in 1..Len(typeMap[t].Fields) : Slot(ret, i - 1).value = 0
           THEN crash
           ELSE [panic |-> FALSE, value |-> cs.value,
                 m |-> CopyFields(m, typeMap[t].Fields, cs.value, ret, 1)]
    [] kind = KindPointer ->
         IF retp = NilFrame THEN crash
         ELSE LET cell == NewPtrCell(m, Slot(ret, 0).value) IN
              [panic |-> FALSE, m |-> cell.m, value |-> cell.p]
    [] kind = KindSlice ->
         IF retp = NilFrame \/ \E i \in 0..(ret.Count - 1) : Slot(ret, i).value = 0
           THEN crash
           ELSE LET next == NewSlice(m, ret.Count) IN
                [panic |-> FALSE, value |-> next.p,
                 m |-> CopyElems(next.m, typeMap[t].Elem, next.m[next.p].a, ret, 0)]
    [] kind = KindInterface ->
         IF retp = NilFrame \/ Slot(ret, 0).typeData = NilTD THEN crash
         ELSE LET next == Slot(ret, 0)
                  w == IntfWrap(m, t, typeMap[next.typeData].TypeID, next.value)
              IN [panic |-> FALSE, m |-> w.m, value |-> w.p]
    [] OTHER -> crash

\* the switch under "if curSlot.dirty": fold the returning frame into a
\* replacement value for the current slot.  The result is the memory and
\* the slot's new value, or a panic when a nil pointer is dereferenced
\* (returning is nil, or a value copied from is nil).
Fold(m, cs, A, retp) ==
  LET t == cs.typeData
      kind == typeMap[t].Kind
      ret == FrameAt(A, retp)
      crash == [panic |-> TRUE, m |-> m, value |-> 0]
  IN
  CASE kind = KindStruct ->
         IF \/ cs.value = 0
            \/ /\ Len(typeMap[t].Fields) > 0
               /\ \/ retp = NilFrame
                  \/ \E i \in 1..Len(typeMap[t].Fields) : Slot(ret, i - 1).value = 0
           THEN crash
           ELSE LET next == NewStruct(m, t) IN
                [panic |-> FALSE, value |-> next.p,
                 m |-> CopyFields(Copy(next.m, t, next.p, cs.value),
                                  typeMap[t].Fields, next.p, ret, 1)]
    [] kind = KindPointer ->
         IF retp = NilFrame THEN crash
         ELSE LET cell == NewPtrCell(m, Slot(ret, 0).value) IN
              [panic |-> FALSE, m |-> cell.m, value |-> cell.p]
    [] kind = KindSlice ->
         IF retp = NilFrame \/ \E i \in 0..(ret.Count - 1) : Slot(ret, i).value = 0
           THEN crash
           ELSE LET next == NewSlice(m, ret.Count) IN
                [panic |-> FALSE, value |-> next.p,
                 m |-> CopyElems(next.m, typeMap[t].Elem, next.m[next.p].a, ret, 0)]
    [] kind = KindInterface ->
         IF retp = NilFrame \/ Slot(ret, 0).typeData = NilTD THEN crash
         ELSE LET next == Slot(ret, 0)
                  w == IntfWrap(m, t, typeMap[next.typeData].TypeID, next.value)
              IN [panic |-> FALSE, m |-> w.m, value |-> w.p]
    [] OTHER -> crash

\* parentSlot.dirty = true
MarkParent(A) == PutSlot(A, parentSlot, [SlotAt(A, parentSlot) EXCEPT !.dirty = TRUE])

\* label unwind, after the Post callback (if any)
Propagate(L) ==
  LET cs == SlotAt(L.A, curSlot) IN
  IF ~cs.dirty
    THEN /\ pc' = "nextSlot"
         /\ mem' = L.m
         /\ arrs' = L.A
         /\ halting' = L.halting
         /\ budget' = L.budget
         /\ log' = L.log
         /\ UNCHANGED << sc, stackIdx, curFrame, curSlot, parentSlot, returning, result >>
    ELSE \E A1 \in {MarkParent(L.A)} :
         \E f \in {Fold(L.m, SlotAt(A1, curSlot), A1, returning)} :
         IF f.panic
           THEN Panic(L.m, A1, L.budget, L.log)
           ELSE /\ pc' = "nextSlot"
                /\ mem' = f.m
                /\ arrs' = PutSlot(A1, curSlot,
                                   [SlotAt(A1, curSlot) EXCEPT !.value = f.value])
                /\ halting' = L.halting
                /\ budget' = L.budget
                /\ log' = L.log
                /\ UNCHANGED << sc, stackIdx, curFrame, curSlot, parentSlot, returning,
                                result >>

\* label unwind
Unwind ==
  /\ pc = "unwind"
  /\ UNCHANGED aside
  /\ LET post == SlotAt(arrs, curSlot).post IN
     IF post # NoFn
       THEN \E x \in Choices(Here, post) :
              \E L1 \in {Invoke(Here, post, x)} :
              IF L1.err # NoErr
                THEN ReturnErr(L1.err, L1.m, L1.A, L1.budget, L1.log)
                ELSE Propagate(L1)
       ELSE Propagate(Here)

\* label nextSlot
NextSlot ==
  /\ pc = "nextSlot"
  /\ UNCHANGED aside
  /\ \E f \in {[FrameAt(arrs, curFrame) EXCEPT !.Idx = @ + 1]} :
     \E A1 \in {PutFrame(arrs, curFrame, f)} :
     /\ arrs' = A1
     /\ IF f.Idx = f.Count \/ halting
          THEN IF stackIdx = topIdx
                 THEN LET z == Slot(f, 0) IN
                      /\ pc' = "done"
                      /\ result' = [retType |-> typeMap[z.typeData].TypeID, ret |-> z.value,
                                    changed |-> z.dirty, err |-> NoErr]
                      /\ UNCHANGED << stackIdx, curFrame, curSlot, parentSlot, returning >>
                 ELSE /\ returning' = curFrame
                      /\ stackIdx' = stackIdx - 1
                      /\ curFrame' = <<Len(A1), stackIdx - 1>>
                      /\ curSlot' = Active(A1, <<Len(A1), stackIdx - 1>>)
                      /\ parentSlot' = Active(A1, <<Len(A1), stackIdx - 2>>)
                      /\ pc' = "unwind"
                      /\ UNCHANGED result
          ELSE /\ curSlot' = Active(A1, curFrame)
               /\ pc' = "enter"
               /\ UNCHANGED << stackIdx, curFrame, parentSlot, returning, result >>
  /\ UNCHANGED << sc, mem, halting, budget, log >>

Next ==
  \/ Bootstrap
  \/ EnterCall
  \/ EnterCycle
  \/ EnterPointer
  \/ EnterStruct
  \/ EnterSlice
  \/ EnterInterface
  \/ Unwind
  \/ NextSlot

Spec == Init /\ [][Next]_vars

\* The calls whose input is a cyclic graph.  Execute is a sequential loop: it
\* takes its next step whenever it has one.
InitCyclic == Init /\ sc \in Cycles

CyclicSpec == InitCyclic /\ [][Next]_vars /\ WF_vars(Next)

\* ------------------------------------------------------------------------
\* Well-formedness of the model's states
\* ------------------------------------------------------------------------
Returned == pc = "done"

TypeOK ==
  /\ pc \in {"start", "enter", "unwind", "nextSlot", "done", "panic"}
  /\ stackIdx \in 0..30
  /\ pc \in {"enter", "unwind", "nextSlot"} =>
       /\ stackIdx >= topIdx
       /\ stackIdx + 1 < StackLen
       /\ SlotAt(arrs, curSlot).typeData # NilTD
       /\ SlotAt(arrs, parentSlot).typeData # NilTD

\* ------------------------------------------------------------------------
\* What the properties below speak about
\* ------------------------------------------------------------------------
\* the inputs of this call
Input == Scenarios[sc]

\* every callback so far returned the zero Decision
AllContinue == \A i \in 1..Len(log) : log[i].d = Continue

\* the i-th callback was the visitor handed to Execute
IsVisit(i) == log[i].fn = "main"

\* ------------------------------------------------------------------------
\* C1 - no-op idempotence.  When every callback returns Continue, Execute
\* does not panic, and when it returns it returns err = nil, changed = false,
\* the type id of the root and the very root reference it was given, over a
\* memory that is cell for cell the memory it was given.
\* ------------------------------------------------------------------------
C1_NoOpIdempotence ==
  AllContinue =>
    /\ pc # "panic"
    /\ Returned =>
         /\ result = [retType |-> typeMap[Input.rootType].TypeID, ret |-> Input.root,
                      changed |-> FALSE, err |-> NoErr]
         /\ mem = Input.mem

\* the tree with a nil pointer, a nil slice element and a typed-nil
\* interface has been walked to the end, four structs visited
C1_Witness ==
  /\ Returned
  /\ AllContinue
  /\ sc = 1
  /\ Len(log) = 4

\* ------------------------------------------------------------------------
\* The value graph, as the engine traverses it.  A location is <<t, a>>: a
\* value of type t at address a.
\* ------------------------------------------------------------------------
Succ(m, l) ==
  LET t == l[1]
      a == l[2]
      td == typeMap[t]
  IN
  CASE td.Kind = KindStruct ->
         { <<td.Fields[i].Target, a + td.Fields[i].Offset>> : i \in 1..Len(td.Fields) }
    [] td.Kind = KindPointer ->
         IF m[a].a = 0 THEN {} ELSE { <<td.Elem, m[a].a>> }
    [] td.Kind = KindSlice ->
         { <<td.Elem, m[a].a + (i - 1) * typeMap[td.Elem].SizeOf>> : i \in 1..m[a].n }
    [] td.Kind = KindInterface ->
         IF IntfType(m, t, a) = 0 \/ m[a].a = 0 THEN {} ELSE { <<m[a].n, m[a].a>> }
    [] OTHER -> {}

RECURSIVE Reach(_, _)
Reach(m, ls) ==
  LET more == ls \cup UNION { Succ(m, l) : l \in ls } IN
  IF more = ls THEN ls ELSE Reach(m, more)

IsStruct(l) == typeMap[l[1]].Kind = KindStruct

\* the structs of the graph under location l
StructsUnder(m, l) == { x \in Reach(m, {l}) : IsStruct(x) }

\* the non-visitable field of a struct: what tells one struct value from another
Label(m, l) == m[l[2] + ValOffset(l[1])].n

InputRoot == <<Input.rootType, Input.root>>
ResultRoot == <<result.retType, result.ret>>

\* the callbacks whose decision carried a replacement
Replaces == { i \in 1..Len(log) : log[i].d.replacement # 0 }

\* the address is one of the input graph's
Old(a) == a \in 1..Len(Input.mem)

\* ------------------------------------------------------------------------
\* C2 - replacement propagation.  When a callback Replaces the node it is
\* shown and Execute returns without an error, Execute reports
\* changed = true and the root it returns is a value allocated during the
\* call; when that Replace was the only one, the replacement's content is
\* in the returned graph.
\* ------------------------------------------------------------------------
C2_ReplacementPropagates ==
  (Returned /\ result.err = NoErr /\ Replaces # {}) =>
    /\ result.changed
    /\ ~Old(result.ret)
    /\ \A i \in Replaces :
         Cardinality(Replaces) = 1 =>
           mem[log[i].d.replacement + ValOffset(log[i].d.replacementType)].n
             \in { Label(mem, l) : l \in StructsUnder(mem, ResultRoot) }

\* ------------------------------------------------------------------------
\* C3 - Execute never writes into the input graph.  No step of Execute
\* changes a memory cell that existed before the step: all it writes are
\* cells it allocates in that step.  The cells of the input graph, and
\* those of the values the callbacks allocated, therefore keep their
\* content whether the call returns changed, unchanged or an error.
\* ------------------------------------------------------------------------
C3_InputNeverWritten ==
  [][\A a \in 1..Len(mem) : mem'[a] = mem[a]]_vars

\* a call that took two replacements has returned a rebuilt root
C3_Witness ==
  /\ Returned
  /\ result.changed
  /\ Cardinality(Replaces) = 2
  /\ Len(mem) > Len(Input.mem)

\* ------------------------------------------------------------------------
\* C4 - structural sharing.  After an Execute that took one Replace, of a
\* node of the input, walk the input graph and the returned graph side by
\* side from their roots.  A field or element from which the replaced node
\* cannot be reached holds in the result the value it holds in the input
\* (the same pointer, the same slice header, the same interface payload,
\* the same non-visitable data); only the fields and elements on a path to
\* the replaced node are new values.
\* ------------------------------------------------------------------------
\* location l of the input lies on a path to the replaced location r
OnPath(l, r) == r \in Reach(Input.mem, {l})

\* the value of type t at address n in the result shares with the value at
\* address o in the input all that is off the paths to r
RECURSIVE SharedOffPath(_, _, _, _, _)
SharedOffPath(t, o, n, r, fuel) ==
  LET td == typeMap[t]
      m0 == Input.mem
  IN
  IF o = n \/ <<t, o>> = r THEN TRUE
  ELSE IF fuel = 0 THEN FALSE
  ELSE IF ~OnPath(<<t, o>>, r)
    THEN \A k \in 0..(td.SizeOf - 1) : mem[n + k] = m0[o + k]
  ELSE
    CASE td.Kind = KindStruct ->
           /\ mem[n + ValOffset(t)] = m0[o + ValOffset(t)]
           /\ \A i \in 1..Len(td.Fields) :
                SharedOffPath(td.Fields[i].Target, o + td.Fields[i].Offset,
                              n + td.Fields[i].Offset, r, fuel - 1)
      [] td.Kind = KindPointer ->
           /\ mem[n].a # 0
           /\ SharedOffPath(td.Elem, m0[o].a, mem[n].a, r, fuel - 1)
      [] td.Kind = KindSlice ->
           /\ mem[n].n = m0[o].n
           /\ \A i \in 0..(m0[o].n - 1) :
                SharedOffPath(td.Elem, m0[o].a + i * typeMap[td.Elem].SizeOf,
                              mem[n].a + i * typeMap[td.Elem].SizeOf, r, fuel - 1)
      [] td.Kind = KindInterface ->
           \/ <<m0[o].n, m0[o].a>> = r
           \/ /\ mem[n].n = m0[o].n
              /\ SharedOffPath(m0[o].n, m0[o].a, mem[n].a, r, fuel - 1)
      [] OTHER -> FALSE

C4_StructuralSharing ==
  (Returned /\ result.err = NoErr /\ Cardinality(Replaces) = 1) =>
    \A i \in Replaces :
      Old(log[i].v) =>
        \/ <<Input.rootType, Input.root>> = <<log[i].t, log[i].v>>
        \/ /\ result.retType = Input.rootType
           /\ SharedOffPath(Input.rootType, Input.root, result.ret,
                            <<log[i].t, log[i].v>>, Len(Input.mem))

\* the referent of the root's Next was replaced: the root is rebuilt, and the
\* new root holds the Kids and the Any of the old one
C4_Witness ==
  /\ Returned
  /\ sc = 1
  /\ result.changed
  /\ ~Old(result.ret)
  /\ Cardinality(Replaces) = 1
  /\ \A i \in Replaces : log[i].v = 5
  /\ mem[result.ret + 1] = Input.mem[Input.root + 1]
  /\ mem[result.ret + 2] = Input.mem[Input.root + 2]

\* ------------------------------------------------------------------------
\* C5 - cycle termination.  On a graph whose root is reachable from itself,
\* with a visitor that always returns Continue, Execute returns, and it
\* returns err = nil and changed = false: every fair behaviour on such an
\* input reaches the return (or a callback that answers something else
\* than Continue, which ends the case).
\* ------------------------------------------------------------------------
C5_CycleTermination ==
  <>((sc \in Cycles /\ AllContinue) =>
       (Returned /\ result.err = NoErr /\ ~result.changed))

\* the walk of the two-node cycle has returned: each node was shown once
C5_Witness ==
  /\ sc = 4
  /\ Returned
  /\ AllContinue
  /\ Len(log) = 2
  /\ ~result.changed

\* ------------------------------------------------------------------------
\* C6 - halt ordering.  Take a call on a tree in which the visitor only
\* ever registers Posts and, at one node N, returns Halt, and in which the
\* Posts return Continue.  Then Execute does not panic, and when it has
\* returned: err = nil; no callback after the Halt is a visit; and the
\* callbacks after the Halt are exactly the Posts registered on N and on
\* the ancestors of N, each once, the innermost first.
\* ------------------------------------------------------------------------
\* the visits that returned Halt
Halts == { i \in 1..Len(log) : IsVisit(i) /\ log[i].d.halt }

\* the visitor halts or continues, with or without a Post; Posts continue
HaltRun ==
  \A i \in 1..Len(log) :
    \/ /\ IsVisit(i)
       /\ log[i].d \in { Continue, Halt, Post(Continue, PostOf("main")),
                         Post(Halt, PostOf("main")) }
    \/ /\ log[i].fn = PostOf("main")
       /\ log[i].d = Continue

\* the visits up to h that registered a Post on the node halted at or on
\* one of its ancestors
PendingAt(h) ==
  { j \in 1..h :
      /\ IsVisit(j)
      /\ log[j].d.post # NoFn
      /\ <<log[h].t, log[h].v>> \in Reach(Input.mem, { <<log[j].t, log[j].v>> }) }

\* the k-th latest of a set of visits: on a tree, the k-th innermost
Innermost(js, k) == CHOOSE j \in js : Cardinality({ x \in js : x > j }) = k - 1

C6_HaltOrdering ==
  (sc \in Trees /\ HaltRun /\ Halts # {}) =>
    /\ pc # "panic"
    /\ Returned =>
         /\ result.err = NoErr
         /\ \A h \in Halts :
              /\ Len(log) - h = Cardinality(PendingAt(h))
              /\ \A k \in 1..(Len(log) - h) :
                   /\ log[h + k].fn = PostOf("main")
                   /\ log[h + k].v = log[Innermost(PendingAt(h), k)].v

\* on the small tree: a Post registered on the root, Halt at the referent of
\* its Next, and the root's Post has run after it
C6_Witness ==
  /\ sc = 1
  /\ Returned
  /\ HaltRun
  /\ Len(log) = 3
  /\ Halts = {2}
  /\ PendingAt(2) = {1}
  /\ log[3].fn = PostOf("main")
  /\ log[3].v = Input.root

\* ------------------------------------------------------------------------
\* C7 - error short-circuit.  A callback that reports an error (the
\* visitor, an interceptor or a Post through Decision.Error, an action
\* function through its return value) is the last callback of the call:
\* Execute has returned (0, nil, false, that error).  And Execute returns
\* no error that its last callback did not cause.
\* ------------------------------------------------------------------------
\* the error the i-th callback reported, NoErr if none
Reported(i) ==
  IF log[i].fn = "callErr" THEN ErrCall ELSE log[i].d.error

C7_ErrorShortCircuit ==
  /\ \A i \in 1..Len(log) :
       Reported(i) # NoErr =>
         /\ i = Len(log)
         /\ Returned
         /\ result = [retType |-> 0, ret |-> 0, changed |-> FALSE, err |-> Reported(i)]
  /\ result.err # NoErr =>
       /\ Returned
       /\ Len(log) > 0
       /\ result.retType = 0 /\ result.ret = 0 /\ ~result.changed
       /\ \/ Reported(Len(log)) = result.err
          \/ log[Len(log)].d.replacement # 0

\* a Post was registered on the root, then the visitor reported an error
\* two frames below: Execute has returned and the Post has not run
C7_Witness ==
  /\ sc = 1
  /\ Returned
  /\ result.err = ErrVisitor
  /\ Len(log) = 2
  /\ log[1].d.post # NoFn
  /\ log[2].depth > log[1].depth

\* ------------------------------------------------------------------------
\* C8 - Replace with a type change, on a slot whose assignable-to
\* descriptor is not of kind Interface.  A decision that carries no error
\* and a replacement whose type id differs from the slot's makes Execute
\* return (0, nil, false, "cannot change type of <assignable type> to
\* <replacement type>") at once.  A replacement of the slot's own type id
\* is accepted whatever the descriptor: that callback is not the one
\* Execute fails at.
\* ------------------------------------------------------------------------
\* the i-th callback's replacement has the type id the slot has
SameType(i) == typeMap[log[i].t].TypeID = log[i].d.replacementType

C8_TypeChangeRejected ==
  \A i \in Replaces :
    log[i].d.error = NoErr =>
      /\ (~SameType(i) /\ typeMap[log[i].to].Kind # KindInterface) =>
           /\ i = Len(log)
           /\ Returned
           /\ result = [retType |-> 0, ret |-> 0, changed |-> FALSE,
                        err |-> ErrCannotChange(typeMap[log[i].to].TypeID,
                                                log[i].d.replacementType)]
      /\ (SameType(i) /\ i = Len(log)) => result.err = NoErr

\* the referent of the root's Next, a *Node slot, was replaced by a Leaf
C8_Witness ==
  /\ sc = 1
  /\ Returned
  /\ Len(log) = 2
  /\ log[2].to = NodePtrT
  /\ log[2].d.replacementType = LeafT
  /\ result.err = "cannot change type of *Node to Leaf"

\* ------------------------------------------------------------------------
\* C9 - Replace with a type change, on a slot whose assignable-to
\* descriptor is of kind Interface.  The replacement is taken exactly when
\* the interface's IntfWrap accepts its type id.  When it is not, Execute
\* returns (0, nil, false, "type <replacement type> is unknown or not
\* assignable to <interface type>") at once.  When it is, that callback is
\* not one Execute fails at; an Execute that then returns without error
\* returns changed = true, and returns the replacement's type id when the
\* slot was the root and no later callback replaced the root again.
\* ------------------------------------------------------------------------
\* the i-th callback changes the type of a slot assignable to an interface
IntoInterface(i) ==
  /\ i \in Replaces
  /\ log[i].d.error = NoErr
  /\ ~SameType(i)
  /\ typeMap[log[i].to].Kind = KindInterface

C9_InterfaceTypeChange ==
  \A i \in 1..Len(log) :
    IntoInterface(i) =>
      IF IntfWrapAccepts(log[i].to, log[i].d.replacementType)
        THEN /\ i = Len(log) => result.err = NoErr
             /\ (Returned /\ result.err = NoErr) =>
                  /\ result.changed
                  /\ (/\ log[i].depth = topIdx
                      /\ \A j \in Replaces : log[j].depth = topIdx => j <= i)
                       => result.retType = log[i].d.replacementType
        ELSE /\ i = Len(log)
             /\ Returned
             /\ result = [retType |-> 0, ret |-> 0, changed |-> FALSE,
                          err |-> ErrNotAssignable(log[i].d.replacementType,
                                                   typeMap[log[i].to].TypeID)]

\* the root Node, assignable to Target, was replaced by a Leaf: Execute
\* returns a Leaf
C9_Witness ==
  /\ sc = 1
  /\ Returned
  /\ Len(log) = 1
  /\ IntoInterface(1)
  /\ result.err = NoErr
  /\ result.changed
  /\ result.retType = LeafT

\* ------------------------------------------------------------------------
\* C10 - exactly-once visitation on trees.  When the input is a tree (no
\* cycle, no value reachable twice), whatever its depth, and the visitor
\* always returns Continue, then by the time Execute returns the visitor
\* has been called exactly once for every struct reachable from the root
\* through non-nil pointers, slice elements, non-nil interfaces and struct
\* fields, and for nothing else.
\* ------------------------------------------------------------------------
\* the calls of the visitor that showed it location l
VisitsOf(l) == { i \in 1..Len(log) : IsVisit(i) /\ <<log[i].t, log[i].v>> = l }

C10_ExactlyOnce ==
  (sc \in Trees /\ AllContinue /\ Returned) =>
    /\ \A l \in StructsUnder(Input.mem, InputRoot) : Cardinality(VisitsOf(l)) = 1
    /\ \A i \in 1..Len(log) :
         /\ IsVisit(i)
         /\ <<log[i].t, log[i].v>> \in StructsUnder(Input.mem, InputRoot)

\* the small tree has been walked: its four structs were shown once each,
\* the nil pointer, the nil slice element and the typed-nil interface gave
\* no call
C10_Witness ==
  /\ sc = 1
  /\ AllContinue
  /\ Returned
  /\ Cardinality(StructsUnder(Input.mem, InputRoot)) = 4
  /\ \A l \in StructsUnder(Input.mem, InputRoot) : Cardinality(VisitsOf(l)) = 1

\* ------------------------------------------------------------------------
\* C11 - Skip.  Take a visit of a struct node N at which the visitor
\* returns Skip, with or without a Post, and no Replace.  Then (a) no frame
\* is pushed for N: the frame above N's never becomes the current one with
\* N's slot as its parent, and on a tree no callback is later invoked on a
\* struct below N; (b) when the decision registered a Post, the very next
\* callback is that Post, on N, in N's frame, and Execute does not return
\* before it ran; (c) on a tree the traversal goes on with what follows N:
\* no callback after the Skip and its Post is invoked on N again; (d) as
\* long as the Skip (or its Post, when it returns neither an error nor a
\* replacement) is the last callback, Execute has not failed.
\* ------------------------------------------------------------------------
\* the location the i-th callback was shown
Loc(i) == <<log[i].t, log[i].v>>

\* the i-th callback is a visit that returned Skip and no replacement
SkipAt(i) ==
  /\ IsVisit(i)
  /\ log[i].d.skip
  /\ log[i].d.error = NoErr
  /\ log[i].d.replacement = 0

\* the callbacks after the i-th that are not the Post its decision registered
AfterSkip(i) ==
  { j \in (i + 1)..Len(log) : ~(j = i + 1 /\ log[i].d.post # NoFn) }

C11_Skip ==
  \A i \in 1..Len(log) :
    SkipAt(i) =>
      /\ ~(/\ i = Len(log)
           /\ pc \in {"enter", "unwind", "nextSlot"}
           /\ stackIdx = log[i].depth + 1
           /\ SlotAt(arrs, parentSlot).value = log[i].v
           /\ SlotAt(arrs, parentSlot).typeData = log[i].t)
      /\ sc \in Trees =>
           \A j \in AfterSkip(i) :
             Loc(j) \notin StructsUnder(mem, Loc(i))
      /\ log[i].d.post # NoFn =>
           /\ i = Len(log) => ~Returned
           /\ i < Len(log) =>
                /\ log[i + 1].fn = log[i].d.post
                /\ Loc(i + 1) = Loc(i)
                /\ log[i + 1].depth = log[i].depth
      /\ \/ i = Len(log)
         \/ /\ i + 1 = Len(log)
            /\ log[i].d.post # NoFn
            /\ log[i + 1].d.error = NoErr
            /\ log[i + 1].d.replacement = 0
         => (pc # "panic" /\ result.err = NoErr)

\* on the small tree the visitor skipped the referent of the root's Next
\* with a Post: the Post ran on it, and the visit went on to the root's Kids
C11_Witness ==
  /\ sc = 1
  /\ Returned
  /\ Len(log) = 5
  /\ SkipAt(2)
  /\ log[2].v = 5
  /\ log[3].fn = PostOf("main")
  /\ log[3].v = 5
  /\ IsVisit(4) /\ log[4].v = 12
  /\ IsVisit(5) /\ log[5].v = 11
  /\ result.err = NoErr

\* ------------------------------------------------------------------------
\* The order of callbacks a recursive descent of the input gives, for the
\* decisions the visitor made: at a struct the interceptor of the enclosing
\* node (if any), then the visitor, then what its decision selects (nothing
\* for Skip, the listed actions, or the fields in declared order), then the
\* Post it registered.  A callback is <<fn, t, v>>; an action function is
\* <<fn, 0, 0>>.
\* ------------------------------------------------------------------------
\* the decision of the visitor at location l: that of its first visit there
DecisionAt(l) ==
  LET is == { i \in 1..Len(log) : IsVisit(i) /\ Loc(i) = l } IN
  IF is = {} THEN Continue
  ELSE log[CHOOSE i \in is : \A j \in is : i <= j].d

RECURSIVE Walk(_, _, _), WalkAll(_, _, _)
Walk(t, a, icpt) ==
  LET td == typeMap[t]
      m == Input.mem
  IN
  CASE td.Kind = KindStruct ->
         LET d == DecisionAt(<<t, a>>) IN
         (IF icpt # NoFn THEN << <<icpt, t, a>> >> ELSE <<>>)
         \o << <<"main", t, a>> >>
         \o (IF d.skip THEN <<>>
             ELSE IF d.hasActions THEN WalkAll(d.actions, d.intercept, 1)
             ELSE WalkAll([i \in 1..Len(td.Fields) |->
                             ActionVisit(td.Fields[i].Target, a + td.Fields[i].Offset)],
                          d.intercept, 1))
         \o (IF d.post # NoFn THEN << <<d.post, t, a>> >> ELSE <<>>)
    [] td.Kind = KindPointer ->
         IF m[a].a = 0 THEN <<>> ELSE Walk(td.Elem, m[a].a, icpt)
    [] td.Kind = KindSlice ->
         WalkAll([i \in 1..m[a].n |->
                    ActionVisit(td.Elem, m[a].a + (i - 1) * typeMap[td.Elem].SizeOf)],
                 icpt, 1)
    [] td.Kind = KindInterface ->
         IF IntfType(m, t, a) = 0 \/ m[a].a = 0 THEN <<>>
         ELSE Walk(m[a].n, m[a].a, icpt)
    [] OTHER -> <<>>
WalkAll(actions, icpt, i) ==
  IF i > Len(actions) THEN <<>>
  ELSE (IF actions[i].call # NoFn THEN << <<actions[i].call, 0, 0>> >>
        ELSE Walk(actions[i].valueType, actions[i].value, icpt))
       \o WalkAll(actions, icpt, i + 1)

\* the callbacks invoked so far
Calls == [i \in 1..Len(log) |-> <<log[i].fn, log[i].t, log[i].v>>]

\* what was invoked so far is the beginning of the descent's order, and all
\* of it once Execute has returned without an error
InDescentOrder ==
  LET want == Walk(Input.rootType, Input.root, NoFn) IN
  /\ Len(Calls) <= Len(want)
  /\ Calls = SubSeq(want, 1, Len(Calls))
  /\ (Returned /\ result.err = NoErr) => Calls = want

\* ------------------------------------------------------------------------
\* C12 - Actions.  Take a call on a tree in which the visitor returns
\* Continue or an action list and nothing else.  Then the callbacks are
\* invoked in the order of the descent that, at a node with a non-empty
\* list, leaves the node's fields alone and runs the listed actions once
\* each in list order, a visit action as the whole walk of its target and a
\* call action as one call of its function, and that at a node with the
\* empty list descends into nothing, as for Skip.  Execute does not panic,
\* and fails only with the error an action function returned.
\* ------------------------------------------------------------------------
\* every callback so far is a visit that returned Continue or Actions, or an
\* action function
ActionsRun ==
  \A i \in 1..Len(log) :
    \/ log[i].fn \in {"callOk", "callErr"}
    \/ /\ IsVisit(i)
       /\ \/ log[i].d = Continue
          \/ log[i].d = Actions(log[i].d.actions)

\* the visits that returned an action list
ActionVisits == { i \in 1..Len(log) : IsVisit(i) /\ log[i].d.hasActions }

Intercepts == { i \in 1..Len(log) : log[i].fn \in {"icptA", "icptB"} }

InterceptRun ==
  \A i \in 1..Len(log) :
    \/ log[i].fn \in {"callOk", "callErr"}
    \/ /\ i \in Intercepts
       /\ log[i].d = Continue
    \/ /\ IsVisit(i)
       /\ \E b \in {Continue, Actions(log[i].d.actions)} :
            log[i].d \in {b, Intercept(b, InterceptOf("main"))}

\* the visits that registered an interceptor
Registered == { i \in 1..Len(log) : IsVisit(i) /\ log[i].d.intercept # NoFn }

C13_InterceptScope ==
  (sc \in Trees /\ InterceptRun /\ Registered # {}) =>
    /\ InDescentOrder
    /\ \A j \in Intercepts :
         /\ \E i \in Registered : i < j /\ log[i].d.intercept = log[j].fn
         /\ j < Len(log) => (IsVisit(j + 1) /\ Loc(j + 1) = Loc(j))

\* on the small tree the visitor registered an interceptor at the root
\* only: it ran before the visit of each of the root's three struct
\* children, behind a pointer, a slice element and an interface
C13_Witness ==
  /\ sc = 1
  /\ Returned
  /\ InterceptRun
  /\ Registered = {1}
  /\ Calls = << <<"main", NodeT, 1>>,
                <<"icptA", NodeT, 5>>, <<"main", NodeT, 5>>,
                <<"icptA", NodeT, 12>>, <<"main", NodeT, 12>>,
                <<"icptA", LeafT, 11>>, <<"main", LeafT, 11>> >>

\* ------------------------------------------------------------------------
\* engine/abstract.go: the abstract accessor.  An *Abstract is <<t, v>>, the
\* descriptor and the value it wraps; NilAbstract is the nil accessor.
\* ------------------------------------------------------------------------
NilAbstract == <<0, 0>>

\* Engine.Abstract
Abstract(typeId, x) == IF x = 0 THEN NilAbstract ELSE <<typeId, x>>

\* a bug: an empty slice is wrapped like any other slice
RECURSIVE ChaseKeepEmpty(_, _, _)
ChaseKeepEmpty(m, chaseType, chaseValue) ==
  IF chaseValue = 0 THEN [panic |-> FALSE, child |-> NilAbstract]
  ELSE
    CASE typeMap[chaseType].Kind \in {KindSlice, KindStruct} ->
           [panic |-> FALSE, child |-> <<chaseType, chaseValue>>]
      [] typeMap[chaseType].Kind = KindPointer ->
           ChaseKeepEmpty(m, typeMap[chaseType].Elem, m[chaseValue].a)
      [] typeMap[chaseType].Kind = KindInterface ->
           LET elemType == IntfType(m, chaseType, chaseValue) IN
           IF elemType = 0 THEN [panic |-> FALSE, child |-> NilAbstract]
           ELSE ChaseKeepEmpty(m, elemType, m[chaseValue].a)
      [] OTHER -> [panic |-> TRUE, child |-> NilAbstract]

\* the loop of ChildAt: traverse pointers and interfaces until a struct or
\* a slice is reached
RECURSIVE Chase(_, _, _)
Chase(m, chaseType, chaseValue) ==
  IF chaseValue = 0 THEN [panic |-> FALSE, child |-> NilAbstract]
  ELSE
    CASE typeMap[chaseType].Kind = KindSlice ->
           IF m[chaseValue].n = 0
             THEN [panic |-> FALSE, child |-> NilAbstract]
             ELSE [panic |-> FALSE, child |-> <<chaseType, chaseValue>>]
      [] typeMap[chaseType].Kind = KindStruct ->
           [panic |-> FALSE, child |-> <<chaseType, chaseValue>>]
      [] typeMap[chaseType].Kind = KindPointer ->
           Chase(m, typeMap[chaseType].Elem, m[chaseValue].a)
      [] typeMap[chaseType].Kind = KindInterface ->
           LET elemType == IntfType(m, chaseType, chaseValue) IN
           IF elemType = 0 THEN [panic |-> FALSE, child |-> NilAbstract]
           ELSE Chase(m, elemType, m[chaseValue].a)
      [] OTHER -> [panic |-> TRUE, child |-> NilAbstract]

\* a bug: see ChaseKeepEmpty
ChildAtKeepEmpty(m, a, index) ==
  LET td == typeMap[a[1]] IN
  CASE td.Kind = KindStruct ->
         IF index < 0 \/ index >= Len(td.Fields)
           THEN [panic |-> TRUE, child |-> NilAbstract]
           ELSE ChaseKeepEmpty(m, td.Fields[index + 1].Target,
                               a[2] + td.Fields[index + 1].Offset)
    [] td.Kind = KindSlice ->
         IF index < 0 \/ index >= m[a[2]].n
           THEN [panic |-> TRUE, child |-> NilAbstract]
           ELSE ChaseKeepEmpty(m, td.Elem, m[a[2]].a + index * typeMap[td.Elem].SizeOf)
    [] OTHER -> [panic |-> TRUE, child |-> NilAbstract]

\* Abstract.ChildAt: select the child value, then chase it
ChildAt(m, a, index) ==
  LET td == typeMap[a[1]] IN
  CASE td.Kind = KindStruct ->
         IF index < 0 \/ index >= Len(td.Fields)
           THEN [panic |-> TRUE, child |-> NilAbstract]
           ELSE Chase(m, td.Fields[index + 1].Target, a[2] + td.Fields[index + 1].Offset)
    [] td.Kind = KindSlice ->
         IF index < 0 \/ index >= m[a[2]].n
           THEN [panic |-> TRUE, child |-> NilAbstract]
           ELSE Chase(m, td.Elem, m[a[2]].a + index * typeMap[td.Elem].SizeOf)
    [] OTHER -> [panic |-> TRUE, child |-> NilAbstract]

\* Abstract.NumChildren; -1 stands for the panic
NumChildren(m, a) ==
  IF a[2] = 0 THEN 0
  ELSE CASE typeMap[a[1]].Kind = KindStruct -> Len(typeMap[a[1]].Fields)
         [] typeMap[a[1]].Kind = KindSlice -> m[a[2]].n
         [] OTHER -> -1

\* The values an accessor is built over: a Box at address 1 whose Ref is nil
\* or points to an interface (nil, typed nil, or holding a Leaf or a Node),
\* whose Kids is nil, empty or holds nil and non-nil elements, and whose Any
\* is nil, typed nil, holds a Leaf or a Node, or holds a type that does not
\* belong to the registry.
AccessorHeaps ==
  { << V(1), P(ref), S(kids[1], kids[2]), any, V(2) >>          \* 1..5   the Box
    \o << via >>                                                \* 6      *Box.Ref
    \o << V(3) >>                                               \* 7      a Leaf
    \o NodeCells(0, 0, 0, LeafT, 7, 4)                          \* 8..11  a Node
    \o << P(e1), P(e2) >>                                       \* 12..13 Box.Kids
    : ref \in {0, 6},
      via \in { I(0, 0), I(NodeT, 0), I(LeafT, 7), I(NodeT, 8) },
      kids \in { <<0, 0>>, <<12, 0>>, <<12, 1>>, <<12, 2>> },
      any \in { I(0, 0), I(NodeT, 0), I(LeafT, 7), I(NodeT, 8), I(BoxT, 1) },
      e1 \in {0, 8}, e2 \in {0, 8} }

\* the caller holds an accessor over the Box
InitAccessor ==
  /\ sc = 1
  /\ pc = "accessor"
  /\ mem \in AccessorHeaps
  /\ arrs = <<>>
  /\ stackIdx = 0
  /\ curFrame = NilFrame
  /\ curSlot = <<0, 0, 0>>
  /\ parentSlot = <<0, 0, 0>>
  /\ returning = NilFrame
  /\ halting = FALSE
  /\ result = NoResult
  /\ budget = 0
  /\ log = <<>>
  /\ acc = [a |-> Abstract(BoxT, 1), asked |-> "nothing"]
  /\ reg = NoRegistry
  /\ peers = NoPeers
  /\ built = NoBuilt

Idle == << sc, pc, mem, arrs, stackIdx, curFrame, curSlot, parentSlot, returning,
           halting, result, budget, log, reg, peers, built >>

\* the caller asks the accessor in hand for its i-th child, for each i
\* below NumChildren
AskChildAt ==
  /\ pc = "accessor"
  /\ \E index \in 0..(NumChildren(mem, acc.a) - 1) :
       acc' = [a |-> acc.a, asked |-> "ChildAt", index |-> index,
               n |-> NumChildren(mem, acc.a), got |-> ChildAt(mem, acc.a, index)]
  /\ UNCHANGED Idle

\* the caller goes on with the accessor it was handed
Descend ==
  /\ pc = "accessor"
  /\ acc.asked = "ChildAt"
  /\ ~acc.got.panic
  /\ acc.got.child # NilAbstract
  /\ acc' = [a |-> acc.got.child, asked |-> "nothing"]
  /\ UNCHANGED Idle

NextAccessor == AskChildAt \/ Descend

AccessorSpec == InitAccessor /\ [][NextAccessor]_vars

\* ------------------------------------------------------------------------
\* C14: the abstract accessor over a struct
\* ------------------------------------------------------------------------

\* the traversable fields the struct types declare
DeclaredFields(t) ==
  CASE t = NodeT -> {"Next", "Kids", "Any"}
    [] t = BoxT -> {"Leaf", "Ref", "Kids", "Any"}
    [] OTHER -> {}

\* the location of the field the last ChildAt call was about
AskedField == << typeMap[acc.a[1]].Fields[acc.index + 1].Target,
                 acc.a[2] + typeMap[acc.a[1]].Fields[acc.index + 1].Offset >>

\* the field itself is a nil pointer, a nil interface or an empty slice
FieldEmpty(m, l) ==
  CASE typeMap[l[1]].Kind = KindPointer -> m[l[2]].a = 0
    [] typeMap[l[1]].Kind = KindInterface -> m[l[2]].n = 0 /\ m[l[2]].a = 0
    [] typeMap[l[1]].Kind = KindSlice -> m[l[2]].n = 0
    [] OTHER -> FALSE

\* the locations reached from ls through pointers and interfaces only
RECURSIVE Through(_, _)
Through(m, ls) ==
  LET hops == { x \in ls : typeMap[x[1]].Kind \in {KindPointer, KindInterface} }
      more == ls \cup UNION { Succ(m, l) : l \in hops }
  IN IF more = ls THEN ls ELSE Through(m, more)

\* the struct or non-empty slice that location l resolves to, if any
ResolvesTo(m, l) ==
  { x \in Through(m, {l}) :
      \/ typeMap[x[1]].Kind = KindStruct
      \/ typeMap[x[1]].Kind = KindSlice /\ m[x[2]].n > 0 }

AskedStruct == pc = "accessor" /\ acc.asked = "ChildAt" /\ IsStruct(acc.a)

\* C14 (as stated): for an accessor over a struct, NumChildren is the number
\* of declared traversable fields, and ChildAt(i) is nil exactly when field i
\* itself is a nil pointer, a nil interface or an empty slice.
C14_FieldItself ==
  AskedStruct =>
    /\ ~acc.got.panic
    /\ acc.n = Cardinality(DeclaredFields(acc.a[1]))
    /\ (acc.got.child = NilAbstract) <=> FieldEmpty(mem, AskedField)

\* C14 (amended): for an accessor over a struct, NumChildren is the number of
\* declared traversable fields, and ChildAt(i) is nil exactly when field i,
\* followed through its pointer and interface layers, ends at a nil pointer,
\* at an interface with no registered dynamic type or a nil payload, or at
\* an empty slice; otherwise it is the accessor over the struct or the
\* non-empty slice that the field resolves to.
C14_AccessorAgreement ==
  AskedStruct =>
    /\ ~acc.got.panic
    /\ acc.n = Cardinality(DeclaredFields(acc.a[1]))
    /\ { typeMap[acc.a[1]].Fields[i].Name : i \in 1..acc.n } = DeclaredFields(acc.a[1])
    /\ (acc.got.child = NilAbstract) <=> (ResolvesTo(mem, AskedField) = {})
    /\ acc.got.child # NilAbstract => ResolvesTo(mem, AskedField) = {acc.got.child}

\* Box.Ref points to a nil interface and ChildAt(1) answered nil; and the
\* same Box holds a Node in Any
C14_Witness ==
  /\ AskedStruct
  /\ acc.a = <<BoxT, 1>>
  /\ acc.index = 1
  /\ mem[2].a = 6
  /\ mem[6] = I(0, 0)
  /\ acc.got.child = NilAbstract
  /\ ChildAt(mem, acc.a, 3).child = <<NodeT, 8>>

\* ------------------------------------------------------------------------
\* engine.go: New.  A TypeMap is written by the generator as a keyed literal
\* { TypeID: {..., TypeID: TypeID}, ... }: the entry at index id carries
\* TypeID id, an id the literal leaves out is the zero TypeData, and the
\* literal is as long as its largest key.  The registries handed to New are
\* the literals that keep any subset of the entries of typeMap.
\* ------------------------------------------------------------------------
MaxOf(ids) == IF ids = {} THEN 0 ELSE CHOOSE x \in ids : \A y \in ids : y <= x

Registry(present) ==
  [id \in 0..MaxOf(present) |-> IF id \in present THEN typeMap[id] ELSE ZeroTypeData]

Registries == { Registry(present) : present \in SUBSET (DOMAIN typeMap \ {0}) }

\* a bug: the link is made whatever typeData finds
LinkUnchecked(m, id) ==
  IF id \notin DOMAIN m THEN [panic |-> TRUE, link |-> NilTD]
  ELSE [panic |-> FALSE, link |-> id]

\* found := e.typeData(id); if found.TypeId == 0 { panic(...) }; link = found
\* (indexing the TypeMap outside its length panics as well)
Link(m, id) ==
  IF id \notin DOMAIN m THEN [panic |-> TRUE, link |-> NilTD]
  ELSE IF m[id].TypeID = 0 THEN [panic |-> TRUE, link |-> NilTD]
  ELSE [panic |-> FALSE, link |-> id]

\* New: the links of every entry, or a panic; a link is the index of the
\* entry of the Engine's TypeMap it points to
New(m) ==
  LET elem == [idx \in DOMAIN m |->
                 IF m[idx].Elem # 0 THEN Link(m, m[idx].Elem)
                 ELSE [panic |-> FALSE, link |-> NilTD]]
      target == [idx \in DOMAIN m |->
                   [f \in 1..Len(m[idx].Fields) |-> Link(m, m[idx].Fields[f].Target)]]
  IN
  IF \E idx \in DOMAIN m :
       \/ elem[idx].panic
       \/ \E f \in 1..Len(m[idx].Fields) : target[idx][f].panic
    THEN [given |-> m, made |-> "panic", elemData |-> <<>>, targetData |-> <<>>]
    ELSE [given |-> m, made |-> "engine",
          elemData |-> [idx \in DOMAIN m |-> elem[idx].link],
          targetData |-> [idx \in DOMAIN m |->
                            [f \in 1..Len(m[idx].Fields) |-> target[idx][f].link]]]

\* a TypeMap is about to be handed to New
InitNew ==
  /\ sc = 1
  /\ pc = "new"
  /\ mem = <<>>
  /\ arrs = <<>>
  /\ stackIdx = 0
  /\ curFrame = NilFrame
  /\ curSlot = <<0, 0, 0>>
  /\ parentSlot = <<0, 0, 0>>
  /\ returning = NilFrame
  /\ halting = FALSE
  /\ result = NoResult
  /\ budget = 0
  /\ log = <<>>
  /\ acc = NoAccessor
  /\ \E m \in Registries :
       reg = [given |-> m, made |-> "nothing", elemData |-> <<>>, targetData |-> <<>>]
  /\ peers = NoPeers
  /\ built = NoBuilt

CallNew ==
  /\ pc = "new"
  /\ reg.made = "nothing"
  /\ reg' = New(reg.given)
  /\ UNCHANGED << sc, pc, mem, arrs, stackIdx, curFrame, curSlot, parentSlot,
                  returning, halting, result, budget, log, acc, peers, built >>

NextNew == CallNew

NewSpec == InitNew /\ [][NextNew]_vars

\* ------------------------------------------------------------------------
\* C16: registry closure
\* ------------------------------------------------------------------------

\* some entry has a non-zero Elem, or a field Target, that resolves to an
\* entry whose TypeID is 0
Dangling(m) ==
  \E idx \in DOMAIN m :
    \/ m[idx].Elem # 0 /\ m[idx].Elem \in DOMAIN m /\ m[m[idx].Elem].TypeID = 0
    \/ \E f \in 1..Len(m[idx].Fields) :
         /\ m[idx].Fields[f].Target \in DOMAIN m
         /\ m[m[idx].Fields[f].Target].TypeID = 0

RECURSIVE FramesUnder(_, _)
FramesUnder(l, path) ==
  IF l \in path \/ Succ(Input.mem, l) = {} THEN 0
  ELSE 1 + MaxOf({ FramesUnder(c, path \cup {l}) : c \in Succ(Input.mem, l) })

\* the walk of the input comes to use the last frame but one of the initial
\* frame array
DeepInput == topIdx + FramesUnder(InputRoot, {}) >= defaultStackDepth - 1

\* some value of the input has more children than a frame has fixed slots
WideInput ==
  \E l \in Reach(Input.mem, {InputRoot}) : Cardinality(Succ(Input.mem, l)) > fixedSlotCount

\* a second frame array was made
FramesGrown == Len(arrs) > 1

\* some frame was given an Overflow array
OverflowAllocated ==
  \E a \in 1..Len(arrs) : \E f \in 1..Len(arrs[a]) : arrs[a][f].Overflow # <<>>

Within(i, j) ==
  /\ i < j
  /\ \A k \in (i + 1)..j : log[k].depth > log[i].depth

\* the visitor is shown a struct again while its visit of that struct is
\* still in progress
Reentered(i, j) ==
  /\ IsVisit(i)
  /\ IsVisit(j)
  /\ Within(i, j)
  /\ Loc(j) = Loc(i)

\* C18: Execute returns whatever the callbacks decide, on cyclic graphs
\* too.  A callback decides from the value it is shown, so Execute returns
\* for every visitor only if it never shows the visitor a struct whose
\* visit is still in progress: the visitor that answers the second showing
\* as it answered the first is shown the struct a third time, one level
\* deeper, and so on without end.
C18_AlwaysFinite ==
  \A i \in 1..Len(log) : \A j \in 1..Len(log) : ~Reentered(i, j)

\* the no-op walk of the cyclic graph has returned: R and A were shown once
C18_Witness ==
  /\ sc = 4
  /\ Returned
  /\ AllContinue
  /\ Len(log) = 2
  /\ Loc(1) = <<NodeT, 1>>
  /\ Loc(2) = <<NodeT, 5>>
  /\ result.err = NoErr

\* ------------------------------------------------------------------------
\* C19: pre-order, declared order
\* ------------------------------------------------------------------------

\* the structs of the input strictly below location l
DescendantsOf(l) ==
  IF l[2] \in 1..Len(Input.mem) THEN StructsUnder(Input.mem, l) \ {l} ELSE {}

\* C19: the visitor is shown a struct before it is shown any descendant of
\* it; when every callback returns Continue, the callbacks are those of the
\* depth-first walk that takes a struct's fields in declared order and a
\* slice's elements by increasing index, finishing each child's subtree
\* before the next sibling.
C19_PreOrder ==
  sc \in Trees =>
    /\ \A i \in 1..Len(log) : \A j \in 1..Len(log) :
         (IsVisit(i) /\ IsVisit(j) /\ Loc(j) \in DescendantsOf(Loc(i))) => i < j
    /\ AllContinue => InDescentOrder

\* the no-op walk of SmallTree has returned: R, then R.Next, then R.Kids[0],
\* then the Leaf in R.Any
C19_Witness ==
  /\ sc = 1
  /\ Returned
  /\ AllContinue
  /\ Calls = << <<"main", NodeT, 1>>, <<"main", NodeT, 5>>,
                <<"main", NodeT, 12>>, <<"main", LeafT, 11>> >>

\* ------------------------------------------------------------------------
\* C20: Post nesting
\* ------------------------------------------------------------------------

\* the callbacks that are Posts
IsPost(j) == log[j].fn \in {"postA", "postB", "postI"}

\* the visitor continues, skips or lists actions, with or without a Post;
\* a Post continues, with or without a further Post; no action function
\* fails
PostRun ==
  \A i \in 1..Len(log) :
    \/ log[i].fn = "callOk"
    \/ /\ IsVisit(i)
       /\ \E b \in {Continue, Skip, Actions(log[i].d.actions)} :
            log[i].d \in {b, Post(b, PostOf("main"))}
    \/ /\ log[i].fn = PostOf("main")
       /\ log[i].d \in {Continue, Post(Continue, PostOf(PostOf("main")))}

\* the visits that registered a Post
PostVisits == { i \in 1..Len(log) : IsVisit(i) /\ log[i].d.post # NoFn }

\* the value a slot holds once the decision of visit i is applied
ValueAfter(i) ==
  IF log[i].d.replacement # 0
    THEN <<log[i].d.replacementType, log[i].d.replacement>>
    ELSE Loc(i)

\* Post j belongs to visit i: same frame level, and everything in between
\* happened below
PostOfVisit(i, j) ==
  /\ IsVisit(i)
  /\ i < j
  /\ log[i].depth = log[j].depth
  /\ \A k \in (i + 1)..(j - 1) : log[k].depth > log[i].depth
  /\ log[i].d.post = log[j].fn

\* C20: absent an error, the callbacks are those of the descent that calls
\* a node's Post once, after everything below the node and before anything
\* else (so before the Post of an ancestor and before the next sibling), and
\* that never calls the further Post a Post returned; and a Post is shown
\* the value its node had after the visit, not the copy rebuilt from
\* replaced children.
C20_PostNesting ==
  sc \in Trees =>
    /\ (PostRun /\ PostVisits # {}) =>
         /\ InDescentOrder
         /\ pc # "panic"
         /\ result.err = NoErr
    /\ Intercepts = {} =>
         \A j \in 1..Len(log) : IsPost(j) =>
           \E i \in 1..(j - 1) : PostOfVisit(i, j) /\ Loc(j) = ValueAfter(i)

\* on the small tree a Post was registered on R.Next: it ran right after
\* the visit of R.Next and before R.Kids was entered, and the further Post
\* it returned was not called
C20_Witness ==
  /\ sc = 1
  /\ Returned
  /\ PostRun
  /\ PostVisits = {2}
  /\ Calls = << <<"main", NodeT, 1>>, <<"main", NodeT, 5>>, <<"postA", NodeT, 5>>,
                <<"main", NodeT, 12>>, <<"main", LeafT, 11>> >>
  /\ log[3].d.post = "postB"
  /\ result.err = NoErr

\* ------------------------------------------------------------------------
\* Two Execute calls on one Engine, over the same data.  Everything Execute
\* declares is local to the call (ctx, stack, entering, returning,
\* parentSlot, stackIdx, curFrame, curSlot, halting, the results); the calls
\* share the Engine's TypeMap, which is typeMap, and the heap.  The
\* variables hold the locals of the call that is running, peers.saved those
\* of the other call.  Call 1 is given any visitor, call 2 the visitor that
\* returns the zero Decision.  A step is one of Execute's blocks from label
\* to label: a block reads the shared data and writes its locals and the
\* cells it allocates itself, so blocks of different calls commute and
\* nothing is lost by not interleaving inside a block.
\* ------------------------------------------------------------------------

\* the local variables of the running call, as a record
Locals ==
  [pc |-> pc, arrs |-> arrs, stackIdx |-> stackIdx, curFrame |-> curFrame,
   curSlot |-> curSlot, parentSlot |-> parentSlot, returning |-> returning,
   halting |-> halting, result |-> result, budget |-> budget, log |-> log]

\* the locals of a call that has not begun, with the given budget
FreshLocals(b) ==
  [pc |-> "start", arrs |-> <<>>, stackIdx |-> 0, curFrame |-> NilFrame,
   curSlot |-> <<0, 0, 0>>, parentSlot |-> <<0, 0, 0>>, returning |-> NilFrame,
   halting |-> FALSE, result |-> NoResult, budget |-> b, log |-> <<>>]

\* the running call's locals become those of l
Resume(l) ==
  /\ pc' = l.pc
  /\ arrs' = l.arrs
  /\ stackIdx' = l.stackIdx
  /\ curFrame' = l.curFrame
  /\ curSlot' = l.curSlot
  /\ parentSlot' = l.parentSlot
  /\ returning' = l.returning
  /\ halting' = l.halting
  /\ result' = l.result
  /\ budget' = l.budget
  /\ log' = l.log

Ended(l) == l.pc \in {"done", "panic"}

\* the non-default choices the visitor of call c may make: call 2 is the
\* no-op visitor
ConcBudget(s, c) ==
  IF c = 1 /\ Scenarios[s].budget > 0 THEN Scenarios[s].budget - 1 ELSE 0

\* both calls are about to begin; call 1 runs first
InitConc ==
  /\ sc \in { s \in 1..Len(Scenarios) : Scenarios[s] # Wide }
  /\ mem = Scenarios[sc].mem
  /\ pc = "start"
  /\ arrs = <<>>
  /\ stackIdx = 0
  /\ curFrame = NilFrame
  /\ curSlot = <<0, 0, 0>>
  /\ parentSlot = <<0, 0, 0>>
  /\ returning = NilFrame
  /\ halting = FALSE
  /\ result = NoResult
  /\ budget = ConcBudget(sc, 1)
  /\ log = <<>>
  /\ acc = NoAccessor
  /\ reg = NoRegistry
  /\ peers = [phase |-> "together", running |-> 1,
              saved |-> FreshLocals(ConcBudget(sc, 2)), rec |-> <<>>]
  /\ built = NoBuilt

\* the running call takes its next step
StepTogether ==
  /\ peers.phase = "together"
  /\ Next

\* the scheduler lets the other call run
Yield ==
  /\ peers.phase = "together"
  /\ ~Ended(peers.saved)
  /\ Resume(peers.saved)
  /\ peers' = [peers EXCEPT !.running = 3 - peers.running, !.saved = Locals]
  /\ UNCHANGED << sc, mem, acc, reg, built >>

\* what call c did while the two ran together
Outcome(c) ==
  LET l == IF c = peers.running THEN Locals ELSE peers.saved IN
  [pc |-> l.pc, result |-> l.result, log |-> l.log, mem |-> mem]

\* both calls have ended; call c is now run again, alone, on the same data
RunAlone ==
  /\ peers.phase = "together"
  /\ Ended(Locals)
  /\ Ended(peers.saved)
  /\ \E c \in {1, 2} :
       /\ peers' = [phase |-> "alone", running |-> c, saved |-> <<>>, rec |-> Outcome(c)]
       /\ Resume(FreshLocals(ConcBudget(sc, c)))
  /\ mem' = Scenarios[sc].mem
  /\ UNCHANGED << sc, acc, reg, built >>

\* the call that runs alone takes its next step; its callbacks return what
\* they returned when the two calls ran together (and Continue, should they
\* be invoked more often than they were then)
StepAlone ==
  /\ peers.phase = "alone"
  /\ Next
  /\ \A k \in (Len(log) + 1)..Len(log') :
       log'[k].d = IF k <= Len(peers.rec.log) THEN peers.rec.log[k].d ELSE Continue

NextConc == StepTogether \/ Yield \/ RunAlone \/ StepAlone

ConcSpec == InitConc /\ [][NextConc]_vars

\* ------------------------------------------------------------------------
\* C15: independent concurrent visitations
\* ------------------------------------------------------------------------

\* C15: however the steps of the two calls were interleaved, each call did
\* what it does alone with the same callbacks: alone it makes the same
\* callbacks in the same order, ends the same way with the same results and,
\* for the call that allocates, leaves the same heap; and while the calls
\* run together the data they share is never written.
C15_Independent ==
  /\ peers.phase = "together" =>
       \A a \in 1..Len(Scenarios[sc].mem) : mem[a] = Scenarios[sc].mem[a]
  /\ peers.phase = "alone" =>
       /\ Len(log) <= Len(peers.rec.log)
       /\ \A k \in 1..Len(log) : log[k] = peers.rec.log[k]
       /\ Ended(Locals) =>
            /\ pc = peers.rec.pc
            /\ log = peers.rec.log
            /\ result = peers.rec.result
            /\ peers.running = 1 => mem = peers.rec.mem

\* call 1 has been run again alone on the small tree and has returned what
\* it returned beside call 2: a changed root, rebuilt around a replacement
\* of R.Next
C15_Witness ==
  /\ sc = 1
  /\ peers.phase = "alone"
  /\ peers.running = 1
  /\ Returned
  /\ result.changed
  /\ result.ret # Scenarios[sc].root
  /\ Len(log) >= 2
  /\ Loc(2) = <<NodeT, 5>>
  /\ log[2].d.replacement # 0
  /\ result = peers.rec.result
  /\ log = peers.rec.log

\* ------------------------------------------------------------------------
\* C21: Halt is final
\* ------------------------------------------------------------------------

\* the callbacks that returned Halt: the visitor, an interceptor or a Post
HaltedAt == { i \in 1..Len(log) : log[i].d.halt /\ log[i].d.error = NoErr }

\* the Halts an interceptor returned
InterceptHalts == HaltedAt \cap Intercepts

\* C21: after a callback (the visitor, an interceptor, a Post) returned
\* Halt, the only callbacks invoked are Posts: not the visitor, not an
\* interceptor, not an action function.  While halting is set no frame is
\* pushed, and halting, once set, stays set.
C21_HaltFinal ==
  /\ [](\A i \in HaltedAt : \A j \in (i + 1)..Len(log) : IsPost(j))
  /\ [][halting => (halting' /\ stackIdx' <= stackIdx)]_vars

\* the same, for the Halts of the visitor and of the Posts only
C21_VisitorHaltFinal ==
  /\ [](\A i \in HaltedAt \ Intercepts : \A j \in (i + 1)..Len(log) : IsPost(j))
  /\ [][halting => (halting' /\ stackIdx' <= stackIdx)]_vars

\* the interceptor's Halt is followed by exactly one more call of the
\* visitor, on the node the interceptor halted at
C21_InterceptHaltOnce ==
  \A i \in InterceptHalts :
    /\ Len(log) > i
    /\ IsVisit(i + 1)
    /\ Loc(i + 1) = ValueAfter(i)
    /\ \A j \in (i + 2)..Len(log) : IsPost(j)

\* on the small tree the visitor registered a Post on the root and halted
\* at R.Next: the call has returned, halting is set, and the only callback
\* after the Halt is the root's Post
C21_Witness ==
  /\ sc = 1
  /\ Returned
  /\ halting
  /\ HaltedAt = {2}
  /\ IsVisit(2)
  /\ Len(log) = 3
  /\ IsPost(3)
  /\ log[3].v = Input.root

\* ------------------------------------------------------------------------
\* C22: cycle breaking
\* ------------------------------------------------------------------------

\* the (type id, address) pairs of stack[l].Active(), l < stackIdx
PairsBelow ==
  { <<typeMap[s.typeData].TypeID, s.value>> :
      s \in { SlotAt(arrs, Active(arrs, <<Len(arrs), l>>)) : l \in 0..(stackIdx - 1) } }

\* the (type id, address) pair of the current slot
CurPair ==
  LET cs == SlotAt(arrs, curSlot) IN <<typeMap[cs.typeData].TypeID, cs.value>>

\* Execute is at label enter with a value slot whose pair is that of the
\* active slot of a frame below
AtCycle ==
  /\ pc = "enter"
  /\ SlotAt(arrs, curSlot).call = NoFn
  /\ CurPair \in PairsBelow

EmptyLeaf ==
  LET cs == SlotAt(arrs, curSlot)
      kind == typeMap[cs.typeData].Kind
  IN /\ pc \in {"enter", "unwind", "nextSlot"}
     /\ cs.call = NoFn
     /\ \/ kind = KindPointer /\ mem[cs.value].a = 0
        \/ kind = KindSlice /\ mem[cs.value].n = 0
        \/ /\ kind = KindInterface
           /\ (IntfType(mem, cs.typeData, cs.value) = 0 \/ mem[cs.value].a = 0)

\* the frame the current slot is in moves on to its next slot
NextSibling ==
  /\ curFrame' = curFrame
  /\ curSlot' = Active(arrs', curFrame)
  /\ FrameAt(arrs', curFrame).Idx = FrameAt(arrs, curFrame).Idx + 1

\* what Execute does at an empty leaf: from enter to unwind to nextSlot and
\* from there to the next slot of the frame, or out of the frame when there
\* is none (or when halting)
PassedOver ==
  /\ log' = log
  /\ mem' = mem
  /\ stackIdx' <= stackIdx
  /\ ~SlotAt(arrs, curSlot).dirty
  /\ ~SlotAt(arrs', curSlot).dirty
  /\ SlotAt(arrs', curSlot).value = SlotAt(arrs, curSlot).value
  /\ result'.err = NoErr
  /\ pc = "enter" => (pc' = "unwind" /\ curSlot' = curSlot)
  /\ pc = "unwind" => (pc' = "nextSlot" /\ curSlot' = curSlot)
  /\ pc = "nextSlot" =>
       \/ pc' = "enter" /\ NextSibling
       \/ /\ pc' = "unwind"
          /\ stackIdx' = stackIdx - 1
          /\ halting \/ FrameAt(arrs', curFrame).Idx = FrameAt(arrs', curFrame).Count
       \/ pc' = "done" /\ stackIdx = topIdx

\* C23: at a slot that holds a nil pointer, an empty slice or an interface
\* without a resolvable tag or without a payload, Execute invokes no
\* callback (visitor, interceptor, Post) and pushes no frame; it goes on to
\* the next slot of the frame (or leaves the frame when there is none), the
\* slot is not dirty and keeps its value, the heap is as it was and no
\* error is returned.
C23_EmptyLeaves == [][EmptyLeaf => PassedOver]_vars

\* in the no-op walk of the small tree, the Any field of R.Kids[0], an
\* interface with the tag of Node and no payload, has been passed over and
\* its slot is about to be left
C23_Witness ==
  /\ sc = 1
  /\ AllContinue
  /\ pc = "nextSlot"
  /\ EmptyLeaf
  /\ typeMap[SlotAt(arrs, curSlot).typeData].Kind = KindInterface
  /\ mem[SlotAt(arrs, curSlot).value] = I(NodeT, 0)
  /\ Len(log) = 3

\* ------------------------------------------------------------------------
\* C24: an interceptor that replaces itself
\* ------------------------------------------------------------------------

\* the visitor continues, with or without an Intercept; an interceptor
\* continues, with or without an Intercept of its own
SelfReplaceRun ==
  \A i \in 1..Len(log) :
    \/ /\ IsVisit(i)
       /\ log[i].d \in {Continue, Intercept(Continue, InterceptOf("main"))}
    \/ /\ i \in Intercepts
       /\ log[i].d \in {Continue, Intercept(Continue, InterceptOf(log[i].fn))}

\* the interceptor calls that returned a decision with an Intercept, for a
\* child at which the visitor then registered none
SelfReplaced ==
  { j \in Intercepts :
      /\ log[j].d.intercept # NoFn
      /\ j < Len(log)
      /\ IsVisit(j + 1)
      /\ log[j + 1].d.intercept = NoFn }

\* in the input, y is a struct below the struct x with no struct in between
NearestStruct(x, y) ==
  /\ y \in StructsUnder(Input.mem, x) \ {x}
  /\ \A z \in StructsUnder(Input.mem, x) \ {x, y} : y \notin StructsUnder(Input.mem, z)

\* visit k, after visit i, is of a nearest struct below the struct of i
NearestBelow(i, k) ==
  /\ IsVisit(k)
  /\ i < k
  /\ NearestStruct(Loc(i), Loc(k))

\* C24: on a tree, when an interceptor called for a child returns a
\* decision with an Intercept, the callback it names, and not the old
\* interceptor, is called on each nearest struct below that child, right
\* before the visitor is.
C24_SelfReplacement ==
  (sc \in Trees /\ SelfReplaceRun) =>
    \A j \in SelfReplaced : \A k \in (j + 2)..Len(log) :
      NearestBelow(j + 1, k) =>
        /\ log[k - 1].fn = log[j].d.intercept
        /\ Loc(k - 1) = Loc(k)

\* what Execute does: below the child no interceptor is called at all
C24_NothingBelow ==
  (sc \in Trees /\ SelfReplaceRun) =>
    \A j \in SelfReplaced : \A k \in (j + 2)..Len(log) :
      NearestBelow(j + 1, k) => IsVisit(k - 1)

\* on the chain the visitor registered an interceptor at R, the interceptor
\* called for N1 = R.Next named another one, and the visitor has been
\* called on N2 = N1.Next, the nearest struct below N1
C24_Witness ==
  /\ sc = 5
  /\ SelfReplaceRun
  /\ SelfReplaced = {2}
  /\ Len(log) = 4
  /\ log[2].d.intercept = "icptB"
  /\ NearestBelow(3, 4)
  /\ Loc(4) = <<NodeT, 9>>

\* ------------------------------------------------------------------------
\* C25: what ChildAt returns is resolved
\* ------------------------------------------------------------------------

\* the last ChildAt call of the caller
Asked == pc = "accessor" /\ acc.asked = "ChildAt"

\* the location of the child value the last ChildAt call selected: a field
\* of the struct or an element of the slice
AskedChild ==
  IF IsStruct(acc.a) THEN AskedField
  ELSE << typeMap[acc.a[1]].Elem,
          mem[acc.a[2]].a + acc.index * typeMap[typeMap[acc.a[1]].Elem].SizeOf >>

\* location l is a nil pointer, or an interface whose tag maps to type id 0
\* or whose payload is nil
DeadEnd(m, l) ==
  CASE typeMap[l[1]].Kind = KindPointer -> m[l[2]].a = 0
    [] typeMap[l[1]].Kind = KindInterface ->
         IntfType(m, l[1], l[2]) = 0 \/ m[l[2]].a = 0
    [] OTHER -> FALSE

\* C25: ChildAt, asked for a child within NumChildren, returns (it neither
\* panics nor runs on); a non-nil accessor it returns wraps a non-nil value
\* whose descriptor is a Struct, or a Slice of length at least 1, never a
\* Pointer or an Interface; and it returns nil whenever the chase from the
\* selected child through pointers and interfaces meets a nil pointer, an
\* interface without a registered tag, or a nil payload.
C25_Resolved ==
  Asked =>
    /\ ~acc.got.panic
    /\ acc.got.child # NilAbstract =>
         /\ acc.got.child[2] # 0
         /\ \/ typeMap[acc.got.child[1]].Kind = KindStruct
            \/ /\ typeMap[acc.got.child[1]].Kind = KindSlice
               /\ mem[acc.got.child[2]].n >= 1
    /\ (\E l \in Through(mem, {AskedChild}) : DeadEnd(mem, l)) =>
         acc.got.child = NilAbstract

\* the caller descended into Box.Kids, a slice of two elements, and asked
\* for element 0, a pointer to a Node: it was handed the Node; element 1 is
\* a nil pointer
C25_Witness ==
  /\ Asked
  /\ acc.a = <<NodePtrSliceT, 3>>
  /\ acc.index = 0
  /\ acc.n = 2
  /\ acc.got.child = <<NodeT, 8>>
  /\ ChildAt(mem, acc.a, 1).child = NilAbstract
  /\ DeadEnd(mem, <<NodePtrT, 13>>)

\* ------------------------------------------------------------------------
\* One Execute call made twice over the same data with the same callbacks:
\* first with a frame array that is large enough never to grow, then with
\* the frame array of defaultStackDepth frames.  peers.rec keeps what the
\* first call did.
\* ------------------------------------------------------------------------

\* a frame array no call on these inputs outgrows
RoomyDepth == 2 * defaultStackDepth

\* Bootstrap with stack := make([]frame, RoomyDepth)
BootstrapRoomy ==
  /\ pc = "start"
  /\ UNCHANGED aside
  /\ LET in == Scenarios[sc]
         f0 == SetSlot(ZeroFrame, 0, ActionVisit(in.assignableTo, 0))
         f1 == SetSlot([ZeroFrame EXCEPT !.Count = 1], 0,
                       ActionVisit(in.rootType, in.root))
     IN arrs' = << [i \in 1..RoomyDepth |->
                      IF i = 1 THEN f0 ELSE IF i = topIdx + 1 THEN f1 ELSE ZeroFrame] >>
  /\ parentSlot' = Zero(<<1, 0>>)
  /\ stackIdx' = topIdx
  /\ curFrame' = <<1, topIdx>>
  /\ curSlot' = Zero(<<1, topIdx>>)
  /\ halting' = FALSE
  /\ pc' = "enter"
  /\ UNCHANGED << sc, mem, returning, result, budget, log >>

InitGrowth ==
  /\ sc \in 1..Len(Scenarios)
  /\ mem = Scenarios[sc].mem
  /\ pc = "start"
  /\ arrs = <<>>
  /\ stackIdx = 0
  /\ curFrame = NilFrame
  /\ curSlot = <<0, 0, 0>>
  /\ parentSlot = <<0, 0, 0>>
  /\ returning = NilFrame
  /\ halting = FALSE
  /\ result = NoResult
  /\ budget = Scenarios[sc].budget
  /\ log = <<>>
  /\ acc = NoAccessor
  /\ reg = NoRegistry
  /\ peers = [phase |-> "roomy", running |-> 1, saved |-> <<>>, rec |-> <<>>]
  /\ built = NoBuilt

\* the call with the large frame array begins
StartRoomy ==
  /\ peers.phase = "roomy"
  /\ BootstrapRoomy

\* and takes its next step
StepRoomy ==
  /\ peers.phase = "roomy"
  /\ pc # "start"
  /\ Next

\* the first call has ended; the same call is made with the frame array of
\* defaultStackDepth frames
RunDefault ==
  /\ peers.phase = "roomy"
  /\ Ended(Locals)
  /\ peers' = [phase |-> "default", running |-> 1, saved |-> <<>>,
               rec |-> [pc |-> pc, result |-> result, log |-> log, mem |-> mem,
                        grown |-> Len(arrs) > 1]]
  /\ Resume(FreshLocals(Scenarios[sc].budget))
  /\ mem' = Scenarios[sc].mem
  /\ UNCHANGED << sc, acc, reg, built >>

\* the second call takes its next step; its callbacks return what they
\* returned in the first call (and Continue, should they be invoked more
\* often than they were then)
StepDefault ==
  /\ peers.phase = "default"
  /\ Next
  /\ \A k \in (Len(log) + 1)..Len(log') :
       log'[k].d = IF k <= Len(peers.rec.log) THEN peers.rec.log[k].d ELSE Continue

NextGrowth == StartRoomy \/ StepRoomy \/ RunDefault \/ StepDefault

GrowthSpec == InitGrowth /\ [][NextGrowth]_vars

\* ------------------------------------------------------------------------
\* C26: growth of the frame array is transparent
\* ------------------------------------------------------------------------

\* C26: the call with the frame array of defaultStackDepth frames, grown
\* when stackIdx reaches len(stack)-1, invokes the callbacks the call with
\* the large frame array invoked, on the same values and in the same order,
\* and ends as it ended: the same result (type id, value, changed, error)
\* and the same heap.  The large frame array never grows.
C26_GrowthTransparent ==
  /\ peers.phase = "roomy" => Len(arrs) <= 1
  /\ peers.phase = "default" =>
       /\ Len(log) <= Len(peers.rec.log)
       /\ \A k \in 1..Len(log) : log[k] = peers.rec.log[k]
       /\ Ended(Locals) =>
            /\ pc = peers.rec.pc
            /\ log = peers.rec.log
            /\ result = peers.rec.result
            /\ mem = peers.rec.mem

\* the part of C26 that holds: the same, for the calls that stay below the
\* frame at which the array is grown
C26_SameWithoutGrowth ==
  (peers.phase = "default" /\ ~FramesGrown) =>
       /\ Len(log) <= Len(peers.rec.log)
       /\ \A k \in 1..Len(log) : log[k] = peers.rec.log[k]
       /\ Ended(Locals) =>
            /\ pc = peers.rec.pc
            /\ log = peers.rec.log
            /\ result = peers.rec.result
            /\ mem = peers.rec.mem

\* on the small tree, which needs no growth, the second call has returned
\* what the first returned: a changed root rebuilt around a replacement of
\* R.Next
C26_Witness ==
  /\ sc = 1
  /\ peers.phase = "default"
  /\ Returned
  /\ ~FramesGrown
  /\ result.changed
  /\ Len(log) >= 2
  /\ log[2].d.replacement # 0
  /\ result = peers.rec.result
  /\ log = peers.rec.log

\* ------------------------------------------------------------------------
\* C27: Replace without descent
\* ------------------------------------------------------------------------

\* the last callback was the visitor, it returned Skip or Halt with a
\* Replace and nothing else, the replacement was taken and is a struct with
\* at least one traversable field, and Execute is still at that slot
ReplacedWithoutDescent ==
  /\ pc \in {"unwind", "nextSlot", "panic"}
  /\ Len(log) >= 1
  /\ LET last == log[Len(log)] IN
     /\ last.fn = "main"
     /\ last.d \in { Replace(Skip, last.d.replacementType, last.d.replacement),
                     Replace(Halt, last.d.replacementType, last.d.replacement) }
     /\ last.d.replacement # 0
     /\ Len(typeMap[last.d.replacementType].Fields) >= 1
     /\ stackIdx = last.depth
     /\ SlotAt(arrs, curSlot).replaced

\* the struct of type t at address x has, cell by cell, the fields of the
\* one at address r
SameFields(m, t, x, r) ==
  \A i \in 0..(typeMap[t].SizeOf - 1) : m[x + i] = m[r + i]

\* C27: when the visitor returns Skip or Halt together with Replace(r) on
\* a struct that has traversable fields, Execute does not fail (no panic,
\* no error), and once the slot of the node is rebuilt the value it holds
\* has every field equal to the field of r.
C27_ReplaceWithoutDescent ==
  ReplacedWithoutDescent =>
    /\ pc # "panic"
    /\ pc = "nextSlot" =>
         LET last == log[Len(log)] IN
         SameFields(mem, last.d.replacementType, SlotAt(arrs, curSlot).value,
                    last.d.replacement)

\* on the small tree the visitor has returned Skip with a Replace by a copy
\* at the root, a Node with three traversable fields; Execute is at label
\* unwind with the slot dirty
C27_Witness ==
  /\ sc = 1
  /\ ReplacedWithoutDescent
  /\ pc = "unwind"
  /\ Len(log) = 1
  /\ log[1].d.skip
  /\ log[1].d.replacementType = NodeT
  /\ SlotAt(arrs, curSlot).dirty
  /\ returning = NilFrame

\* ------------------------------------------------------------------------
\* C28: Halt after a replacement
\* ------------------------------------------------------------------------

\* the visitor replaced one node of the input and went on, a later
\* callback returned Halt, and no callback skipped, listed actions or
\* reported an error
HaltAfterReplace ==
  /\ Cardinality(Replaces) = 1
  /\ \A i \in Replaces :
       /\ IsVisit(i)
       /\ Old(log[i].v)
       /\ log[i].d = Replace(Continue, log[i].d.replacementType, log[i].d.replacement)
       /\ \E j \in (i + 1)..Len(log) : log[j].d.halt
  /\ \A k \in 1..Len(log) :
       /\ log[k].fn \notin {"callOk", "callErr"}
       /\ ~log[k].d.skip
       /\ ~log[k].d.hasActions
       /\ log[k].d.error = NoErr

\* C28: when one node was replaced and a callback at a later node returns
\* Halt, Execute does not panic and returns err = nil and changed = true;
\* the returned graph holds a struct with the fields of the replacement;
\* and whatever is off the path to the replaced node, the slots that were
\* never entered because of the Halt included, holds in the result the
\* value it holds in the input.
C28_HaltAfterReplace ==
  HaltAfterReplace =>
    /\ pc # "panic"
    /\ Returned =>
         /\ result.err = NoErr
         /\ result.changed
         /\ \A i \in Replaces :
              /\ \E x \in StructsUnder(mem, ResultRoot) :
                   /\ x[1] = log[i].d.replacementType
                   /\ SameFields(mem, x[1], x[2], log[i].d.replacement)
              /\ \/ InputRoot = Loc(i)
                 \/ /\ result.retType = Input.rootType
                    /\ SharedOffPath(Input.rootType, Input.root, result.ret, Loc(i),
                                     Len(Input.mem))

\* on the small tree the visitor replaced R.Next by a copy and halted at
\* R.Kids[0]; R.Any was never entered; Execute has returned a changed root
C28_Witness ==
  /\ sc = 1
  /\ Returned
  /\ HaltAfterReplace
  /\ Replaces = {2}
  /\ Len(log) = 3
  /\ log[3].d = Halt
  /\ Loc(3) = <<NodeT, 12>>
  /\ result.changed
  /\ mem[result.ret + 2] = Input.mem[Input.root + 2]

\* ------------------------------------------------------------------------
\* engine/types.go: an Action by itself.  The Action of types.go carries
\* the descriptor it may be replaced under in its own field assignableTo
\* (types.go:194), which only ActionVisitReplace fills (types.go:126-128);
\* apply tests that field (types.go:213).  built holds such an Action next
\* to its assignableTo, the Decision a callback returned for it, and what
\* apply and the return that follows it made of both.
\* ------------------------------------------------------------------------

\* the descriptors and values the Actions are built over
BuiltTypes == {NodeT, LeafT, NodePtrT, TargetT}
BuiltValues == {1, 5}

\* Context.ActionVisit, ActionVisitTypeID and ActionVisitReplace, each with
\* the assignableTo it leaves in the Action
BuiltActions ==
  { [by |-> "ActionVisit", a |-> ActionVisit(td, v), assignableTo |-> NilTD] :
      <<td, v>> \in BuiltTypes \X BuiltValues }
  \cup
  { [by |-> "ActionVisitTypeID", a |-> ActionVisitTypeID(typeMap[td].TypeID, v),
     assignableTo |-> NilTD] : <<td, v>> \in BuiltTypes \X BuiltValues }
  \cup
  { [by |-> "ActionVisitReplace", a |-> ActionVisit(td, v), assignableTo |-> to] :
      <<td, v, to>> \in BuiltTypes \X BuiltValues \X BuiltTypes }

\* the Decisions of types.go:136-190: Continue, Error, Halt, Skip, with or
\* without Post and Replace; Replace(id, nil) leaves replacement nil
BuiltDecisions ==
  { Replace(IF po THEN Post(base, "post") ELSE base, id, x) :
      <<base, po, id, x>> \in
        {Continue, Halt, Skip, Error("boom")} \X BOOLEAN \X {NodeT, LeafT, NodePtrT}
          \X {0, 9} }

\* a callback has returned a Decision for an Action built by one of the
\* three constructors
InitApply ==
  /\ sc = 1
  /\ pc = "apply"
  /\ mem = Scenarios[sc].mem
  /\ arrs = <<>>
  /\ stackIdx = 0
  /\ curFrame = NilFrame
  /\ curSlot = <<0, 0, 0>>
  /\ parentSlot = <<0, 0, 0>>
  /\ returning = NilFrame
  /\ halting = FALSE
  /\ result = NoResult
  /\ budget = 0
  /\ log = <<>>
  /\ acc = NoAccessor
  /\ reg = NoRegistry
  /\ peers = NoPeers
  /\ \E b \in BuiltActions, d \in BuiltDecisions :
       built = [by |-> b.by, a |-> b.a, assignableTo |-> b.assignableTo, d |-> d,
                out |-> [err |-> NoErr, a |-> b.a, m |-> mem]]

\* if err := curSlot.apply(e, d); err != nil { return 0, nil, false, err }
ApplyBuilt ==
  /\ pc = "apply"
  /\ \E ap \in { apply(mem, built.a, built.d, built.assignableTo) } :
       /\ built' = [built EXCEPT !.out = ap]
       /\ IF ap.err # NoErr
            THEN ReturnErr(ap.err, ap.m, arrs, budget, log)
            ELSE /\ pc' = "applied"
                 /\ mem' = ap.m
                 /\ UNCHANGED << sc, arrs, stackIdx, curFrame, curSlot, parentSlot,
                                 returning, halting, result, budget, log >>
  /\ UNCHANGED << acc, reg, peers >>

NextApply == ApplyBuilt

ApplySpec == InitApply /\ [][NextApply]_vars

\* a Replace decision, not an Error, was applied to an Action that carries
\* no assignableTo
ReplacedUnassignable ==
  /\ pc \in {"applied", "done"}
  /\ built.assignableTo = NilTD
  /\ built.d.error = NoErr
  /\ built.d.replacement # 0

C29_ReplaceableTakes ==
  ( /\ pc \in {"applied", "done"}
    /\ built.by = "ActionVisitReplace"
    /\ built.d.error = NoErr
    /\ built.d.replacement # 0
    /\ built.d.replacementType = typeMap[built.a.typeData].TypeID ) =>
      /\ pc = "applied"
      /\ built.out.a.dirty
      /\ built.out.a.value = built.d.replacement

\* ------------------------------------------------------------------------
\* Stack bounds
\* ------------------------------------------------------------------------
\* Execute is inside its loop, at one of the three labels
InLoop == pc \in {"enter", "unwind", "nextSlot"}

\* the step pops a frame: stackIdx--
Pops == stackIdx' < stackIdx

\* the step is a return of Execute
Returns == pc # "done" /\ pc' = "done"

\* C30: inside the loop the stack index is at least topIdx and the frame
\* entering = &stack[stackIdx+1] lies within the frame array in use; a pop
\* takes the index down by one and never below topIdx (so that the frame
\* below it, read for parentSlot, exists); Execute returns without an error
\* only from the frame at topIdx.
C30_StackBounds ==
  /\ [](InLoop => (stackIdx >= topIdx /\ stackIdx + 1 <= StackLen - 1))
  /\ [][Pops => (InLoop /\ stackIdx' = stackIdx - 1 /\ stackIdx' >= topIdx
                 /\ stackIdx' - 1 >= 0)]_vars
  /\ [][Returns => (stackIdx = topIdx \/ result'.err # NoErr)]_vars
  /\ [][(Returns /\ result'.err = NoErr) => pc = "nextSlot"]_vars

\* the frame array was grown once and the walk stands at a depth whose child
\* frame has the first index the array of defaultStackDepth frames lacked
C30_Witness ==
  /\ pc = "enter"
  /\ Len(arrs) = 2
  /\ stackIdx + 1 = defaultStackDepth
  /\ Len(log) >= 1

====
